---- MODULE Spec2Model ----
(***************************************************************************)
(* Usage-quota blocking engine of the Bedrock usage control system:        *)
(*   - the realtime usage controller (automatic blocking on usage events,  *)
(*     manual block / unblock / status commands, expiration on read),      *)
(*   - the IAM policy synchronizer (implement_iam_blocking / _unblocking), *)
(*   - the daily reset job (expiration sweep, protection cleanup).         *)
(* Tables are modelled row by row, the IAM inline policy as the ordered    *)
(* list of its statements, time as integer ticks of local (CET) time.      *)
(***************************************************************************)
EXTENDS Integers, Sequences, FiniteSets, TLC

VARIABLES
    now,      \* current local (CET) time, in ticks
    ubs,      \* table user_blocking_status: one row per user, or none
    ul,       \* table user_limits: one row per user, or none
    reqs,     \* table bedrock_requests, aggregated: user -> day -> rows logged
    policy,   \* IAM inline policy <user>_BedrockPolicy: the statement list, or none
    audit,    \* table blocking_audit_log: rows in insertion order
    faulted,  \* invocations so far in which an external call failed
    last,     \* the last handler that ran: its inputs, the calls it made, its result
    proc      \* invocations in progress at the same time: the calls each has left

vars == <<now, ubs, ul, reqs, policy, audit, faulted, last, proc>>

-----------------------------------------------------------------------------
(* Bounds of the model *)

MaxTime == 2        \* the clock runs over 0..MaxTime
DayLen == 2         \* ticks per local day; a day starts at a multiple of DayLen
MaxStmts == 3       \* longest policy document the policy store starts with
MaxAudit == 2       \* audit rows after which no further transition is started
DaysPerMonth == 2   \* days per calendar month
SmallDaily == 2     \* daily_request_limit of the provisioned account
SmallMonthly == 3   \* monthly_request_limit of the provisioned account
MaxReq == 3         \* rows per user and day after which no further request is logged
MaxFaults == 1      \* external calls that fail within one invocation
MaxFaulted == 1     \* invocations with a failing call in one run

Users == {"u1", "u2"}
NULL == -1          \* SQL NULL / Python None for a timestamp column

-----------------------------------------------------------------------------
(* IAM policy documents *)

DENY_STATEMENT_SID == "DailyLimitBlock"

\* The deny statement implement_iam_blocking builds: four Bedrock actions.
deny_statement ==
    [Sid |-> "DailyLimitBlock", Effect |-> "Deny", Action |-> "InvokeConverse"]

\* The allow statement of the policy implement_iam_blocking creates when the
\* user has none: the same four actions.
blocking_default_allow ==
    [Sid |-> "BedrockAccess", Effect |-> "Allow", Action |-> "InvokeConverse"]

\* An appended statement that allows nothing.
unblocking_default_deny ==
    [Sid |-> "BedrockAccess", Effect |-> "Deny", Action |-> "Invoke"]

\* The allow statement implement_iam_unblocking appends: two actions only.
unblocking_default_allow ==
    [Sid |-> "BedrockAccess", Effect |-> "Allow", Action |-> "Invoke"]

\* Statements a policy document may hold ("" is a statement without Sid).
Statements ==
    [Sid : {"DailyLimitBlock", "BedrockAccess", "Other", ""},
     Effect : {"Allow", "Deny"},
     Action : {"Invoke", "InvokeConverse"}]

\* One call a handler made, and whether it went through.
Step(name, ok) == [step |-> name, ok |-> ok]

NoPolicy == [exists |-> FALSE, Statement |-> <<>>]

PolicyOf(stmts) == [exists |-> TRUE, Statement |-> stmts]

IsNotDeny(stmt) == stmt.Sid # DENY_STATEMENT_SID

\* A filter that drops only the first statement carrying the deny Sid.
WithoutFirstDeny(stmts) ==
    IF \E i \in 1..Len(stmts) : ~IsNotDeny(stmts[i])
    THEN LET i == CHOOSE j \in 1..Len(stmts) : ~IsNotDeny(stmts[j])
         IN  SubSeq(stmts, 1, i - 1) \o SubSeq(stmts, i + 1, Len(stmts))
    ELSE stmts

\* [stmt for stmt in Statement if stmt.get('Sid') != 'DailyLimitBlock']
WithoutDeny(stmts) == SelectSeq(stmts, IsNotDeny)

HasDeny(stmts) == \E i \in 1..Len(stmts) : stmts[i].Sid = DENY_STATEMENT_SID

\* A check for an allow statement that never finds one.
HasAllow_never(stmts) == FALSE

\* any(stmt.get('Effect') == 'Allow' for stmt in Statement)
HasAllow(stmts) == \E i \in 1..Len(stmts) : stmts[i].Effect = "Allow"

IamFaults == {"none", "get", "put", "verify"}

\* An implement_iam_blocking that puts the deny statement last.
implement_iam_blocking_deny_last(doc, fault) ==
    LET new == IF doc.exists
               THEN WithoutDeny(doc.Statement) \o <<deny_statement>>
               ELSE <<blocking_default_allow, deny_statement>>
    IN  IF fault = "get"
        THEN [ok |-> FALSE, doc |-> doc, wrote |-> FALSE,
              calls |-> <<Step("get_user_policy", FALSE)>>]
        ELSE IF fault = "put"
        THEN [ok |-> FALSE, doc |-> doc, wrote |-> FALSE,
              calls |-> <<Step("get_user_policy", TRUE), Step("put_user_policy", FALSE)>>]
        ELSE IF fault = "verify"
        THEN [ok |-> FALSE, doc |-> PolicyOf(new), wrote |-> TRUE,
              calls |-> <<Step("get_user_policy", TRUE), Step("put_user_policy", TRUE),
                          Step("verify", FALSE)>>]
        ELSE [ok |-> HasDeny(new), doc |-> PolicyOf(new), wrote |-> TRUE,
              calls |-> <<Step("get_user_policy", TRUE), Step("put_user_policy", TRUE),
                          Step("verify", TRUE)>>]

\* implement_iam_blocking on the stored document doc. fault names the IAM call
\* that raises (get_user_policy, put_user_policy, the verifying get_user_policy).
\* Result: the value returned, the document stored afterwards, whether
\* put_user_policy was carried out.
implement_iam_blocking(doc, fault) ==
    LET new == IF doc.exists
               THEN <<deny_statement>> \o WithoutDeny(doc.Statement)
               ELSE <<deny_statement, blocking_default_allow>>
    IN  IF fault = "get"
        THEN [ok |-> FALSE, doc |-> doc, wrote |-> FALSE,
              calls |-> <<Step("get_user_policy", FALSE)>>]
        ELSE IF fault = "put"
        THEN [ok |-> FALSE, doc |-> doc, wrote |-> FALSE,
              calls |-> <<Step("get_user_policy", TRUE), Step("put_user_policy", FALSE)>>]
        ELSE IF fault = "verify"
        THEN [ok |-> FALSE, doc |-> PolicyOf(new), wrote |-> TRUE,
              calls |-> <<Step("get_user_policy", TRUE), Step("put_user_policy", TRUE),
                          Step("verify", FALSE)>>]
        ELSE [ok |-> HasDeny(new), doc |-> PolicyOf(new), wrote |-> TRUE,
              calls |-> <<Step("get_user_policy", TRUE), Step("put_user_policy", TRUE),
                          Step("verify", TRUE)>>]

\* implement_iam_unblocking of the controller (no verifying read: the fault
\* "verify" does not occur in it and behaves as "none").
implement_iam_unblocking(doc, fault) ==
    LET stripped == WithoutDeny(doc.Statement)
        new == IF HasAllow(stripped) THEN stripped
               ELSE Append(stripped, unblocking_default_allow)
    IN  IF fault = "get"
        THEN [ok |-> FALSE, doc |-> doc, wrote |-> FALSE,
              calls |-> <<Step("get_user_policy", FALSE)>>]
        ELSE IF ~doc.exists
        THEN [ok |-> TRUE, doc |-> doc, wrote |-> FALSE,
              calls |-> <<Step("get_user_policy", TRUE)>>]
        ELSE IF fault = "put"
        THEN [ok |-> FALSE, doc |-> doc, wrote |-> FALSE,
              calls |-> <<Step("get_user_policy", TRUE), Step("put_user_policy", FALSE)>>]
        ELSE [ok |-> TRUE, doc |-> PolicyOf(new), wrote |-> TRUE,
              calls |-> <<Step("get_user_policy", TRUE), Step("put_user_policy", TRUE)>>]

-----------------------------------------------------------------------------
(* Time *)

Day(t) == t \div DayLen

MaxDay == MaxTime \div DayLen

\* (current_cet_time + timedelta(days=1)).replace(hour=0, minute=0, second=0)
next_midnight(t) == (Day(t) + 1) * DayLen

\* current_cet_time + timedelta(hours=24)
plus_24h(t) == t + DayLen

\* First day of the month day d lies in: DATE_FORMAT(NOW(), '%Y-%m-01').
month_start(d) == (d \div DaysPerMonth) * DaysPerMonth

\* '00:00:00' in blocked_until.strftime('%H:%M:%S')
is_midnight(t) == t % DayLen = 0

-----------------------------------------------------------------------------
(* Tables *)

NoStatus ==
    [exists |-> FALSE, is_blocked |-> "N", blocked_reason |-> "",
     blocked_at |-> NULL, blocked_until |-> NULL]

NoLimits ==
    [exists |-> FALSE, daily_request_limit |-> 0, monthly_request_limit |-> 0,
     administrative_safe |-> "N"]

DEFAULT_DAILY_LIMIT == 350
DEFAULT_MONTHLY_LIMIT == 5000

\* The row ensure_user_exists and execute_admin_unblocking insert.
default_limits(safe) ==
    [exists |-> TRUE, daily_request_limit |-> DEFAULT_DAILY_LIMIT,
     monthly_request_limit |-> DEFAULT_MONTHLY_LIMIT, administrative_safe |-> safe]

\* The tables and the policy store as one value, so that a handler is a
\* function from the stores before to the stores after.
Stores == [ubs |-> ubs, ul |-> ul, reqs |-> reqs, policy |-> policy, audit |-> audit]

\* A flag column that records 'Y' whatever happened.
YN_always_yes(b) == "Y"

\* 'Y' if b else 'N'
YN(b) == IF b THEN "Y" ELSE "N"

\* Outcome of the external calls of one invocation: whether the status
\* read raises, whether the reads of the limits check raise (usage), which
\* store writes raise, which IAM call raises, and the
\* notification channels: "ok" (the email service delivers), "fallback" (the
\* email service fails, SMTP delivers), "fail" (neither delivers).
AllFaults ==
    [read : BOOLEAN, usage : BOOLEAN, status : BOOLEAN, limits : BOOLEAN,
     audit : BOOLEAN, iam : IamFaults, mail : {"ok", "fallback", "fail"}]

NoFaults ==
    [read |-> FALSE, usage |-> FALSE, status |-> FALSE, limits |-> FALSE,
     audit |-> FALSE, iam |-> "none", mail |-> "ok"]

NumFaults(f) ==
    Cardinality({k \in {"read", "usage", "status", "limits", "audit"} : f[k]})
    + (IF f.iam = "none" THEN 0 ELSE 1) + (IF f.mail = "ok" THEN 0 ELSE 1)

\* The outcomes explored: at most MaxFaults calls of one invocation fail.
Faults == {f \in AllFaults : NumFaults(f) <= MaxFaults}

RECURSIVE SumDays(_, _, _)
SumDays(counts, from, to) ==
    IF from > to THEN 0 ELSE counts[from] + SumDays(counts, from + 1, to)

\* SELECT COUNT(*) FROM bedrock_requests WHERE DATE(request_timestamp) = CURDATE()
daily_requests_used(db, u, t) == db.reqs[u][Day(t)]

\* SELECT COUNT(*) ... WHERE DATE(request_timestamp) >= first day of the month
monthly_requests_used(db, u, t) == SumDays(db.reqs[u], month_start(Day(t)), MaxDay)

-----------------------------------------------------------------------------
(* Usage evaluator *)

\* An evaluator for which a user without limits row has a daily limit of 0.
daily_limit_of_no_default(row) ==
    IF row.exists THEN row.daily_request_limit ELSE 0

\* The limits a user_limits row (or none: the defaults) gives the evaluator.
daily_limit_of(row) ==
    IF row.exists THEN row.daily_request_limit ELSE DEFAULT_DAILY_LIMIT

monthly_limit_of(row) ==
    IF row.exists THEN row.monthly_request_limit ELSE DEFAULT_MONTHLY_LIMIT

administrative_safe_of(row) ==
    IF row.exists THEN row.administrative_safe ELSE "N"

\* An evaluator that does not look at administrative_safe.
limits_decision_ignoring_protection(row, daily, monthly) ==
    IF daily >= daily_limit_of(row)
    THEN [should_block |-> TRUE, block_reason |-> "Daily limit exceeded"]
    ELSE IF monthly >= monthly_limit_of(row)
    THEN [should_block |-> TRUE, block_reason |-> "Monthly limit exceeded"]
    ELSE [should_block |-> FALSE, block_reason |-> "None"]

\* An evaluator that blocks only above a limit, not at it.
limits_decision_strictly_above(row, daily, monthly) ==
    IF administrative_safe_of(row) = "Y"
    THEN [should_block |-> FALSE, block_reason |-> "None"]
    ELSE IF daily > daily_limit_of(row)
    THEN [should_block |-> TRUE, block_reason |-> "Daily limit exceeded"]
    ELSE IF monthly > monthly_limit_of(row)
    THEN [should_block |-> TRUE, block_reason |-> "Monthly limit exceeded"]
    ELSE [should_block |-> FALSE, block_reason |-> "None"]

\* The decision of check_user_limits_with_protection on a user_limits row (or
\* none) and the two counts: protection first, then the daily limit, then the
\* monthly one.
limits_decision(row, daily, monthly) ==
    IF administrative_safe_of(row) = "Y"
    THEN [should_block |-> FALSE, block_reason |-> "None"]
    ELSE IF daily >= daily_limit_of(row)
    THEN [should_block |-> TRUE, block_reason |-> "Daily limit exceeded"]
    ELSE IF monthly >= monthly_limit_of(row)
    THEN [should_block |-> TRUE, block_reason |-> "Monthly limit exceeded"]
    ELSE [should_block |-> FALSE, block_reason |-> "None"]

check_user_limits_with_protection(db, u, t) ==
    limits_decision(db.ul[u], daily_requests_used(db, u, t), monthly_requests_used(db, u, t))

-----------------------------------------------------------------------------
(* Notifier *)

\* send_blocking_email_gmail / send_unblocking_email_gmail: direct SMTP.
send_email_gmail(f) ==
    [ok |-> f.mail # "fail", steps |-> <<Step("smtp", f.mail # "fail")>>]

\* send_enhanced_blocking_email / send_enhanced_unblocking_email: the email
\* service first, SMTP when it answers non-200 or raises.
send_enhanced_email(f) ==
    IF f.mail = "ok"
    THEN [ok |-> TRUE, steps |-> <<Step("email_service", TRUE)>>]
    ELSE [ok |-> f.mail # "fail",
          steps |-> <<Step("email_service", FALSE)>> \o send_email_gmail(f).steps]

\* What a notification tells its reader: the event, who is named as its
\* author, and the end of the block it announces (NULL: none is given).
Mail(event, author, until) == [event |-> event, author |-> author, until |-> until]

\* The text send_blocking_email_gmail composes: limits were exceeded, access
\* comes back at blocked_until.
blocking_email_gmail(blocked_until) == Mail("blocked", "system", blocked_until)

\* The text send_unblocking_email_gmail composes: access was restored
\* automatically.
unblocking_email_gmail == Mail("unblocked", "system", NULL)

\* The text the email service composes for send_admin_blocking_email: the
\* administrator is named; the usage record of get_user_current_usage has no
\* expires_at, so the expiration reads "Indefinida".
send_admin_blocking_email(admin_user) == Mail("blocked", admin_user, NULL)

\* The text the email service composes for send_blocking_email: access comes
\* back tomorrow at 00:00:00.
send_blocking_email(t) == Mail("blocked", "system", next_midnight(t))

\* The text the email service composes for send_admin_unblocking_email.
send_admin_unblocking_email(admin_user) == Mail("unblocked", admin_user, NULL)

\* The text the email service composes for send_unblocking_email.
send_unblocking_email == Mail("unblocked", "system", NULL)

\* The messages of send_enhanced_blocking_email at time t: the one asked of
\* the email service and the one SMTP sends in its place.
enhanced_blocking_mails(performed_by, t) ==
    [primary |-> IF performed_by # "system" THEN send_admin_blocking_email(performed_by)
                 ELSE send_blocking_email(t),
     fallback |-> blocking_email_gmail(plus_24h(t))]

\* The messages of send_enhanced_unblocking_email.
enhanced_unblocking_mails(performed_by) ==
    [primary |-> IF performed_by \notin {"system", "daily_reset"}
                 THEN send_admin_unblocking_email(performed_by)
                 ELSE send_unblocking_email,
     fallback |-> unblocking_email_gmail]

-----------------------------------------------------------------------------
(* Block state machine of the realtime usage controller *)

blocked_row(reason, t, until) ==
    [exists |-> TRUE, is_blocked |-> "Y", blocked_reason |-> reason,
     blocked_at |-> t, blocked_until |-> until]

\* An unblocking update that leaves blocked_until as it was.
unblocked_row_keeping_expiry(row, reason) ==
    IF row.exists
    THEN [row EXCEPT !.is_blocked = "N", !.blocked_reason = reason, !.blocked_at = NULL]
    ELSE row

\* UPDATE user_blocking_status SET is_blocked = 'N', blocked_reason = reason,
\* blocked_at = NULL, blocked_until = NULL WHERE user_id = u: no row, no change.
unblocked_row(row, reason) ==
    IF row.exists
    THEN [row EXCEPT !.is_blocked = "N", !.blocked_reason = reason,
                     !.blocked_at = NULL, !.blocked_until = NULL]
    ELSE row

audit_row(u, op, by, t, iam, email) ==
    [user_id |-> u, operation_type |-> op, performed_by |-> by,
     operation_timestamp |-> t, iam_policy_updated |-> iam, email_sent |-> email]

\* An update of administrative_safe that changes nothing.
set_administrative_safe_lost(row, safe) == row

\* UPDATE user_limits SET administrative_safe = safe WHERE user_id = u.
set_administrative_safe(row, safe) ==
    IF row.exists THEN [row EXCEPT !.administrative_safe = safe] ELSE row

\* execute_user_blocking: the automatic block. Status row, IAM deny, SMTP
\* notification, then the audit row carrying the results of the two before it.
\* The clock is read twice: current_cet_time gives blocked_until, the later
\* current_cet_string gives blocked_at and the audit timestamp.
execute_user_blocking(db, u, current_cet_time, current_cet_string, block_reason, f) ==
    LET iam == implement_iam_blocking(db.policy[u], f.iam)
        email == send_email_gmail(f)
        row == audit_row(u, "BLOCK", "system", current_cet_string, YN(iam.ok), YN(email.ok))
        db1 == [db EXCEPT !.ubs[u] = blocked_row(block_reason, current_cet_string,
                                                 next_midnight(current_cet_time)),
                          !.policy[u] = iam.doc]
    IN  IF f.status
        THEN [db |-> db, ok |-> FALSE, steps |-> <<Step("status", FALSE)>>]
        ELSE [db |-> IF f.audit THEN db1 ELSE [db1 EXCEPT !.audit = Append(@, row)],
              ok |-> iam.ok,
              steps |-> <<Step("status", TRUE), Step("iam_blocking", iam.ok)>>
                        \o email.steps \o <<Step("audit", ~f.audit)>>]

\* An expiration unblock that goes on after its status write failed.
execute_user_unblocking_unguarded(db, u, t, f) ==
    LET iam == implement_iam_unblocking(db.policy[u], f.iam)
        email == send_enhanced_email(f)
        row == audit_row(u, "UNBLOCK", "system", t, "-", "-")
        db1 == [db EXCEPT !.ubs[u] = IF f.status THEN @
                                     ELSE unblocked_row(@, "Automatic unblock"),
                          !.ul[u] = IF f.limits THEN @ ELSE set_administrative_safe(@, "N"),
                          !.audit = IF f.audit THEN @ ELSE Append(@, row),
                          !.policy[u] = iam.doc]
    IN  [db |-> db1, ok |-> ~f.status,
         steps |-> <<Step("status", ~f.status), Step("limits", ~f.limits),
                     Step("audit", ~f.audit), Step("iam_unblocking", iam.ok)>>
                   \o email.steps]

\* execute_user_unblocking of the controller: the expiration unblock. Each
\* later step is attempted whatever the one before it did.
execute_user_unblocking(db, u, t, f) ==
    LET iam == implement_iam_unblocking(db.policy[u], f.iam)
        email == send_enhanced_email(f)
        row == audit_row(u, "UNBLOCK", "system", t, "-", "-")
        db1 == [db EXCEPT !.ubs[u] = unblocked_row(@, "Automatic unblock"),
                          !.ul[u] = IF f.limits THEN @ ELSE set_administrative_safe(@, "N"),
                          !.audit = IF f.audit THEN @ ELSE Append(@, row),
                          !.policy[u] = iam.doc]
    IN  IF f.status
        THEN [db |-> db, ok |-> FALSE, steps |-> <<Step("status", FALSE)>>]
        ELSE [db |-> db1, ok |-> TRUE,
              steps |-> <<Step("status", TRUE), Step("limits", ~f.limits),
                          Step("audit", ~f.audit), Step("iam_unblocking", iam.ok)>>
                        \o email.steps]

\* What manual_block_user passes as expires_at: nothing, the word
\* 'Indefinite', an ISO timestamp (the tick it denotes), or a string
\* datetime.fromisoformat rejects.
NoExpiry == [kind |-> "none", at |-> NULL]
Indefinite == [kind |-> "Indefinite", at |-> NULL]
Unparseable == [kind |-> "unparseable", at |-> NULL]
CustomExpiry(at) == [kind |-> "custom", at |-> at]

\* blocked_until of execute_admin_blocking.
admin_blocked_until(t, expires_at) ==
    CASE expires_at.kind = "custom" -> expires_at.at
      [] expires_at.kind = "unparseable" -> plus_24h(t)
      [] expires_at.kind = "Indefinite" -> NULL
      [] OTHER -> plus_24h(t)

\* An execute_admin_blocking that refuses protected accounts.
execute_admin_blocking_guarded(db, u, t, performed_by, expires_at, f) ==
    LET iam == implement_iam_blocking(db.policy[u], f.iam)
        email == send_enhanced_email(f)
        row == audit_row(u, "BLOCK", performed_by, t, "-", "-")
        db1 == [db EXCEPT !.ubs[u] =
                    blocked_row("Manual admin block", t, admin_blocked_until(t, expires_at))]
        db2 == [db1 EXCEPT !.audit = Append(@, row), !.policy[u] = iam.doc]
    IN  IF db.ul[u].exists /\ db.ul[u].administrative_safe = "Y"
        THEN [db |-> db, ok |-> FALSE, steps |-> <<>>]
        ELSE IF f.status
        THEN [db |-> db, ok |-> FALSE, steps |-> <<Step("status", FALSE)>>]
        ELSE IF f.audit
        THEN [db |-> db1, ok |-> FALSE,
              steps |-> <<Step("status", TRUE), Step("audit", FALSE)>>]
        ELSE [db |-> db2, ok |-> TRUE,
              steps |-> <<Step("status", TRUE), Step("audit", TRUE),
                          Step("iam_blocking", iam.ok)>> \o email.steps]

\* execute_admin_blocking: the manual block. The status and audit writes are
\* not guarded one by one: either raising ends the function with False. The
\* results of implement_iam_blocking and of the notification are not read.
execute_admin_blocking(db, u, t, performed_by, expires_at, f) ==
    LET iam == implement_iam_blocking(db.policy[u], f.iam)
        email == send_enhanced_email(f)
        row == audit_row(u, "BLOCK", performed_by, t, "-", "-")
        db1 == [db EXCEPT !.ubs[u] =
                    blocked_row("Manual admin block", t, admin_blocked_until(t, expires_at))]
        db2 == [db1 EXCEPT !.audit = Append(@, row), !.policy[u] = iam.doc]
    IN  IF f.status
        THEN [db |-> db, ok |-> FALSE, steps |-> <<Step("status", FALSE)>>]
        ELSE IF f.audit
        THEN [db |-> db1, ok |-> FALSE,
              steps |-> <<Step("status", TRUE), Step("audit", FALSE)>>]
        ELSE [db |-> db2, ok |-> TRUE,
              steps |-> <<Step("status", TRUE), Step("audit", TRUE),
                          Step("iam_blocking", iam.ok)>> \o email.steps]

\* A manual unblock that reports failure when the policy update failed.
execute_admin_unblocking_policy_fatal(db, u, t, performed_by, f) ==
    LET iam == implement_iam_unblocking(db.policy[u], f.iam)
        email == send_enhanced_email(f)
        row == audit_row(u, "UNBLOCK", performed_by, t, "-", "-")
        protected == IF db.ul[u].exists THEN set_administrative_safe(db.ul[u], "Y")
                     ELSE default_limits("Y")
        db1 == [db EXCEPT !.ubs[u] = unblocked_row(@, "Manual admin unblock"),
                          !.ul[u] = IF f.limits THEN @ ELSE protected,
                          !.audit = IF f.audit THEN @ ELSE Append(@, row),
                          !.policy[u] = iam.doc]
    IN  IF f.status
        THEN [db |-> db, ok |-> FALSE, steps |-> <<Step("status", FALSE)>>]
        ELSE [db |-> db1, ok |-> ~f.limits /\ iam.ok,
              steps |-> <<Step("status", TRUE), Step("limits", ~f.limits),
                          Step("audit", ~f.audit), Step("iam_unblocking", iam.ok)>>
                        \o email.steps]

\* execute_admin_unblocking: the manual unblock. The protection write inserts
\* the limits row when there is none; its failure makes the result False.
execute_admin_unblocking(db, u, t, performed_by, f) ==
    LET iam == implement_iam_unblocking(db.policy[u], f.iam)
        email == send_enhanced_email(f)
        row == audit_row(u, "UNBLOCK", performed_by, t, "-", "-")
        protected == IF db.ul[u].exists THEN set_administrative_safe(db.ul[u], "Y")
                     ELSE default_limits("Y")
        db1 == [db EXCEPT !.ubs[u] = unblocked_row(@, "Manual admin unblock"),
                          !.ul[u] = IF f.limits THEN @ ELSE protected,
                          !.audit = IF f.audit THEN @ ELSE Append(@, row),
                          !.policy[u] = iam.doc]
    IN  IF f.status
        THEN [db |-> db, ok |-> FALSE, steps |-> <<Step("status", FALSE)>>]
        ELSE [db |-> db1, ok |-> ~f.limits,
              steps |-> <<Step("status", TRUE), Step("limits", ~f.limits),
                          Step("audit", ~f.audit), Step("iam_unblocking", iam.ok)>>
                        \o email.steps]

\* manual_block_user: the answer to the administrator follows the result of
\* execute_admin_blocking.
manual_block_user(db, u, t, performed_by, expires_at, f) ==
    LET r == execute_admin_blocking(db, u, t, performed_by, expires_at, f)
    IN  [db |-> r.db, ok |-> r.ok, steps |-> r.steps,
         statusCode |-> IF r.ok THEN 200 ELSE 500,
         message |-> IF r.ok THEN "blocked successfully" ELSE "Blocking failed"]

\* manual_unblock_user.
manual_unblock_user(db, u, t, performed_by, f) ==
    LET r == execute_admin_unblocking(db, u, t, performed_by, f)
    IN  [db |-> r.db, ok |-> r.ok, steps |-> r.steps,
         statusCode |-> IF r.ok THEN 200 ELSE 500,
         message |-> IF r.ok THEN "unblocked successfully" ELSE "Unblocking failed"]

\* A check_user_status that takes every block for a manual one.
check_user_status_all_manual(db, u, read_fails) ==
    LET status_result == db.ubs[u]
        blocked == status_result.exists /\ status_result.is_blocked = "Y"
    IN  [db |-> db, statusCode |-> IF read_fails THEN 500 ELSE 200, user_id |-> u,
         is_blocked |-> blocked, block_reason |-> status_result.blocked_reason,
         blocked_since |-> status_result.blocked_at,
         expires_at |-> status_result.blocked_until,
         block_type |-> IF blocked THEN "Manual" ELSE "None",
         performed_by |-> IF blocked THEN "dashboard_admin" ELSE "",
         administrative_safe |-> FALSE]

\* strftime('%H:%M:%S') of a stored blocked_until reads 00:00:00.
at_midnight(t) == t % DayLen = 0

\* check_user_status: two SELECTs and the block type inferred from the time of
\* day of blocked_until; performed_by "" stands for null. A failing connection
\* or query answers 500.
check_user_status(db, u, read_fails) ==
    LET status_result == db.ubs[u]
        limits_result == db.ul[u]
        blocked == status_result.exists /\ status_result.is_blocked = "Y"
        auto == blocked /\ status_result.blocked_until # NULL
                        /\ at_midnight(status_result.blocked_until)
    IN  IF read_fails
        THEN [db |-> db, statusCode |-> 500, user_id |-> u, is_blocked |-> FALSE,
              block_reason |-> "", blocked_since |-> NULL, expires_at |-> NULL,
              block_type |-> "None", performed_by |-> "",
              administrative_safe |-> FALSE]
        ELSE [db |-> db, statusCode |-> 200, user_id |-> u, is_blocked |-> blocked,
              block_reason |-> status_result.blocked_reason,
              blocked_since |-> status_result.blocked_at,
              expires_at |-> status_result.blocked_until,
              block_type |-> IF ~blocked THEN "None"
                             ELSE IF auto THEN "AUTO" ELSE "Manual",
              performed_by |-> IF ~blocked THEN ""
                               ELSE IF auto THEN "system" ELSE "dashboard_admin",
              administrative_safe |-> limits_result.exists
                                      /\ limits_result.administrative_safe = "Y"]

-----------------------------------------------------------------------------
(* Usage path of the realtime usage controller *)

\* ensure_user_exists: insert the default limits row when there is none; an
\* error is logged and swallowed.
ensure_user_exists(db, u, f) ==
    IF db.ul[u].exists \/ f.limits THEN db
    ELSE [db EXCEPT !.ul[u] = default_limits("N")]

\* check_user_blocking_status: an expired block is lifted on the spot by
\* execute_user_unblocking; a failing read answers "not blocked".
check_user_blocking_status(db, u, t, f) ==
    LET row == db.ubs[u]
        unb == execute_user_unblocking(db, u, t, f)
    IN  IF f.read \/ ~row.exists \/ row.is_blocked # "Y"
        THEN [db |-> db, is_blocked |-> FALSE, block_reason |-> "None", steps |-> <<>>]
        ELSE IF row.blocked_until # NULL /\ t >= row.blocked_until
        THEN IF unb.ok
             THEN [db |-> unb.db, is_blocked |-> FALSE, block_reason |-> "expired",
                   steps |-> unb.steps]
             ELSE [db |-> unb.db, is_blocked |-> TRUE,
                   block_reason |-> row.blocked_reason, steps |-> unb.steps]
        ELSE [db |-> db, is_blocked |-> TRUE, block_reason |-> row.blocked_reason,
              steps |-> <<>>]

\* log_bedrock_request_cet: one more row of today.
log_bedrock_request_cet(db, u, t) == [db EXCEPT !.reqs[u][Day(t)] = @ + 1]

\* The body of handle_cloudtrail_event's loop for one usage event of user u.
handle_cloudtrail_event(db, u, t, t2, parsed, f) ==
    LET db0 == ensure_user_exists(db, u, f)
        st == check_user_blocking_status(db0, u, t, f)
        \* except Exception: return False, None, {}
        dec == IF f.usage THEN [should_block |-> FALSE, block_reason |-> "None"]
               ELSE check_user_limits_with_protection(st.db, u, t)
        blk == execute_user_blocking(st.db, u, t, t2, dec.block_reason, f)
    IN  IF st.is_blocked
        THEN [db |-> st.db, ok |-> TRUE, outcome |-> "skipped_blocked", steps |-> st.steps,
              decision |-> [should_block |-> FALSE, block_reason |-> "None"]]
        ELSE IF ~parsed
        THEN [db |-> st.db, ok |-> TRUE, outcome |-> "skipped_unparsed", steps |-> st.steps,
              decision |-> [should_block |-> FALSE, block_reason |-> "None"]]
        ELSE IF dec.should_block
        THEN [db |-> blk.db, ok |-> blk.ok, outcome |-> "blocked",
              steps |-> st.steps \o blk.steps, decision |-> dec]
        ELSE [db |-> log_bedrock_request_cet(st.db, u, t), ok |-> TRUE,
              outcome |-> "logged", steps |-> st.steps \o <<Step("request", TRUE)>>,
              decision |-> dec]

-----------------------------------------------------------------------------
(* Daily reset job *)

\* implement_iam_unblocking of the daily reset: the same code as the controller's.
daily_reset_implement_iam_unblocking(doc, fault) ==
    LET stripped == WithoutDeny(doc.Statement)
        new == IF HasAllow(stripped) THEN stripped
               ELSE Append(stripped, unblocking_default_allow)
    IN  IF fault = "get"
        THEN [ok |-> FALSE, doc |-> doc, wrote |-> FALSE,
              calls |-> <<Step("get_user_policy", FALSE)>>]
        ELSE IF ~doc.exists
        THEN [ok |-> TRUE, doc |-> doc, wrote |-> FALSE,
              calls |-> <<Step("get_user_policy", TRUE)>>]
        ELSE IF fault = "put"
        THEN [ok |-> FALSE, doc |-> doc, wrote |-> FALSE,
              calls |-> <<Step("get_user_policy", TRUE), Step("put_user_policy", FALSE)>>]
        ELSE [ok |-> TRUE, doc |-> PolicyOf(new), wrote |-> TRUE,
              calls |-> <<Step("get_user_policy", TRUE), Step("put_user_policy", TRUE)>>]

\* A step 1 query that selects nobody.
expired_blocked_users_none(db, t) == {}

\* Step 1 query: blocked rows joined with user_limits whose blocked_until is
\* NULL or not after the current time.
expired_blocked_users(db, t) ==
    {u \in Users : /\ db.ubs[u].exists /\ db.ul[u].exists
                   /\ db.ubs[u].is_blocked = "Y"
                   /\ (db.ubs[u].blocked_until = NULL \/ db.ubs[u].blocked_until <= t)}

\* A step 2 query that selects nobody.
active_admin_safe_users_none(db) == {}

\* Step 2 query: limits rows with administrative_safe = 'Y' whose user has no
\* status row or is not blocked.
active_admin_safe_users(db) ==
    {u \in Users : /\ db.ul[u].exists /\ db.ul[u].administrative_safe = "Y"
                   /\ (~db.ubs[u].exists \/ db.ubs[u].is_blocked = "N")}

\* execute_user_unblocking of the daily reset: the three writes share one try
\* block, so the first that raises ends the function with False; blocked_at is
\* left as it was.
daily_reset_execute_user_unblocking(db, u, t, f) ==
    LET iam == daily_reset_implement_iam_unblocking(db.policy[u], f.iam)
        row == audit_row(u, "UNBLOCK", "daily_reset", t, "-", "-")
        db1 == [db EXCEPT !.ubs[u] = IF @.exists
                                     THEN [@ EXCEPT !.is_blocked = "N",
                                                    !.blocked_reason = "Daily reset unblock",
                                                    !.blocked_until = NULL]
                                     ELSE @]
        db2 == [db1 EXCEPT !.ul[u] = set_administrative_safe(@, "N")]
        db3 == [db2 EXCEPT !.audit = Append(@, row), !.policy[u] = iam.doc]
    IN  IF f.status
        THEN [db |-> db, ok |-> FALSE, steps |-> <<Step("status", FALSE)>>]
        ELSE IF f.limits
        THEN [db |-> db1, ok |-> FALSE,
              steps |-> <<Step("status", TRUE), Step("limits", FALSE)>>]
        ELSE IF f.audit
        THEN [db |-> db2, ok |-> FALSE,
              steps |-> <<Step("status", TRUE), Step("limits", TRUE), Step("audit", FALSE)>>]
        ELSE [db |-> db3, ok |-> TRUE,
              steps |-> <<Step("status", TRUE), Step("limits", TRUE), Step("audit", TRUE),
                          Step("iam_unblocking", iam.ok)>>]

\* A remove_administrative_safe_flag that logs whether or not a row changed.
remove_administrative_safe_flag_always_logged(db, u, t, f) ==
    LET row == audit_row(u, "ADMIN_SAFE_REMOVED", "daily_reset", t, "-", "-")
        db1 == [db EXCEPT !.ul[u] = set_administrative_safe(@, "N")]
    IN  IF f.limits
        THEN [db |-> db, ok |-> FALSE, steps |-> <<Step("limits", FALSE)>>]
        ELSE IF f.audit
        THEN [db |-> db1, ok |-> FALSE,
              steps |-> <<Step("limits", TRUE), Step("audit", FALSE)>>]
        ELSE [db |-> [db1 EXCEPT !.audit = Append(@, row)], ok |-> TRUE,
              steps |-> <<Step("limits", TRUE), Step("audit", TRUE)>>]

\* remove_administrative_safe_flag: the audit row is written only when the
\* update changed a row.
remove_administrative_safe_flag(db, u, t, f) ==
    LET had == db.ul[u].exists /\ db.ul[u].administrative_safe = "Y"
        row == audit_row(u, "ADMIN_SAFE_REMOVED", "daily_reset", t, "-", "-")
        db1 == [db EXCEPT !.ul[u] = set_administrative_safe(@, "N")]
    IN  IF f.limits
        THEN [db |-> db, ok |-> FALSE, steps |-> <<Step("limits", FALSE)>>]
        ELSE IF ~had
        THEN [db |-> db, ok |-> TRUE, steps |-> <<Step("limits", TRUE)>>]
        ELSE IF f.audit
        THEN [db |-> db1, ok |-> FALSE,
              steps |-> <<Step("limits", TRUE), Step("audit", FALSE)>>]
        ELSE [db |-> [db1 EXCEPT !.audit = Append(@, row)], ok |-> TRUE,
              steps |-> <<Step("limits", TRUE), Step("audit", TRUE)>>]

\* The order in which the rows of the two queries are processed (the queries
\* have no ORDER BY; the users' transitions do not depend on each other).
UserOrder == <<"u1", "u2">>

NoSweep ==
    [expired |-> {}, admin_safe |-> {}, unblocked_count |-> 0, notified_count |-> 0,
     admin_safe_removed_count |-> 0, errors |-> 0, unblocked_users |-> {},
     admin_safe_removed_users |-> {}, attempted |-> {}, query_ok |-> TRUE,
     failed_query |-> "none",
     steps |-> [u \in Users |-> <<>>],
     before |-> [u \in Users |-> [ubs |-> NoStatus, ul |-> NoLimits]]]

\* A loop over expired_blocked_users that ends at the first failed unblock.
RECURSIVE process_expired_blocked_users_abort(_, _, _, _, _)
process_expired_blocked_users_abort(db, res, i, t, F) ==
    IF i > Len(UserOrder) THEN [db |-> db, res |-> res]
    ELSE LET u == UserOrder[i]
             r == daily_reset_execute_user_unblocking(db, u, t, F[u])
             sent == F[u].mail = "ok"
             res1 == [res EXCEPT !.attempted = @ \cup {u},
                                 !.steps[u] = r.steps]
             res2 == IF r.ok
                     THEN [res1 EXCEPT !.unblocked_count = @ + 1,
                                       !.unblocked_users = @ \cup {u},
                                       !.notified_count = IF sent THEN @ + 1 ELSE @,
                                       !.errors = IF sent THEN @ ELSE @ + 1]
                     ELSE [res1 EXCEPT !.errors = @ + 1]
         IN  IF u \in res.expired
             THEN IF r.ok
                  THEN process_expired_blocked_users_abort(r.db, res2, i + 1, t, F)
                  ELSE [db |-> r.db, res |-> res2]
             ELSE process_expired_blocked_users_abort(db, res, i + 1, t, F)

\* The loop over expired_blocked_users: a failed unblock adds an error and the
\* loop goes on; a successful one is followed by the reset notification.
RECURSIVE process_expired_blocked_users(_, _, _, _, _)
process_expired_blocked_users(db, res, i, t, F) ==
    IF i > Len(UserOrder) THEN [db |-> db, res |-> res]
    ELSE LET u == UserOrder[i]
             r == daily_reset_execute_user_unblocking(db, u, t, F[u])
             sent == F[u].mail = "ok"
             res1 == [res EXCEPT !.attempted = @ \cup {u},
                                 !.steps[u] = r.steps]
             res2 == IF r.ok
                     THEN [res1 EXCEPT !.unblocked_count = @ + 1,
                                       !.unblocked_users = @ \cup {u},
                                       !.notified_count = IF sent THEN @ + 1 ELSE @,
                                       !.errors = IF sent THEN @ ELSE @ + 1]
                     ELSE [res1 EXCEPT !.errors = @ + 1]
         IN  IF u \in res.expired
             THEN process_expired_blocked_users(r.db, res2, i + 1, t, F)
             ELSE process_expired_blocked_users(db, res, i + 1, t, F)

\* The loop over active_admin_safe_users.
RECURSIVE process_active_admin_safe_users(_, _, _, _, _)
process_active_admin_safe_users(db, res, i, t, F) ==
    IF i > Len(UserOrder) THEN [db |-> db, res |-> res]
    ELSE LET u == UserOrder[i]
             r == remove_administrative_safe_flag(db, u, t, F[u])
             res1 == [res EXCEPT !.steps[u] = r.steps]
             res2 == IF r.ok
                     THEN [res1 EXCEPT !.admin_safe_removed_count = @ + 1,
                                       !.admin_safe_removed_users = @ \cup {u}]
                     ELSE [res1 EXCEPT !.errors = @ + 1]
         IN  IF u \in res.admin_safe
             THEN process_active_admin_safe_users(r.db, res2, i + 1, t, F)
             ELSE process_active_admin_safe_users(db, res, i + 1, t, F)

\* unblock_all_blocked_users_and_notify: both queries first, then the two
\* loops. A failing query ends it with zero counts and one error.
unblock_all_blocked_users_and_notify(db, t, query_fails, F) ==
    LET res0 == [NoSweep EXCEPT !.expired = expired_blocked_users(db, t),
                                !.admin_safe = active_admin_safe_users(db)]
        p1 == process_expired_blocked_users(db, res0, 1, t, F)
        p2 == process_active_admin_safe_users(p1.db, p1.res, 1, t, F)
    IN  IF query_fails THEN [db |-> db, res |-> [NoSweep EXCEPT !.errors = 1, !.query_ok = FALSE]]
        ELSE p2

\* The outcomes of the external calls while one account is swept: the store
\* write that raises first (the later ones are then not reached), or else
\* whether the IAM write and the reset notification fail.
SweepFaults ==
    {f \in AllFaults :
        /\ ~f.read /\ ~f.usage /\ f.mail # "fallback" /\ f.iam \in {"none", "put"}
        /\ Cardinality({k \in {"status", "limits", "audit"} : f[k]}) <= 1
        /\ (f.status \/ f.limits \/ f.audit) => (f.iam = "none" /\ f.mail = "ok")}

\* One outcome per account the sweep selects.
SweepFaultChoices(db, t) ==
    {F \in [Users -> SweepFaults] :
        \A u \in Users :
            u \notin (expired_blocked_users(db, t) \cup active_admin_safe_users(db))
                => F[u] = NoFaults}

-----------------------------------------------------------------------------
(* The state machine *)

NoDecision == [should_block |-> FALSE, block_reason |-> "None"]

\* The rows of user u and the number of audit rows, as an action found them.
Snapshot(u) ==
    [ubs |-> ubs[u], ul |-> ul[u], policy |-> policy[u], audit |-> Len(audit)]

\* The status and limits rows of every user, as the daily reset found them.
Before == [u \in Users |-> [ubs |-> ubs[u], ul |-> ul[u]]]

NoSnapshot == [ubs |-> NoStatus, ul |-> NoLimits, policy |-> NoPolicy, audit |-> 0]

\* The synchronizer call before the last one, when it returned True: what it
\* was and, for implement_iam_blocking, the document it started from.
NoPrev == [op |-> "", policy |-> NoPolicy]

Prev ==
    IF last.ok /\ last.op \in {"implement_iam_blocking", "implement_iam_unblocking",
                                "daily_reset_implement_iam_unblocking"}
    THEN [op |-> last.op,
          policy |-> IF last.op = "implement_iam_blocking" THEN last.pre.policy
                     ELSE NoPolicy]
    ELSE NoPrev

\* No invocations overlap: every handler runs from start to end on its own.
NoProcs == <<>>

\* No status report was asked for since the last transition.
NoReport ==
    [statusCode |-> 0, user_id |-> "", is_blocked |-> FALSE, block_reason |-> "",
     blocked_since |-> NULL, expires_at |-> NULL, block_type |-> "None",
     performed_by |-> "", administrative_safe |-> FALSE, found |-> NoSnapshot]

\* No call other than the notification failed.
Clean(f) == NumFaults([f EXCEPT !.mail = "ok"]) = 0

\* What an action records of itself; pre holds what it started from; clean
\* tells whether every call other than the notification went through.
Ran(op, u) ==
    [op |-> op, user |-> u, ok |-> TRUE, code |-> 0, outcome |-> "", steps |-> <<>>,
     at |-> now,
     pre |-> IF u \in Users THEN Snapshot(u) ELSE [NoSnapshot EXCEPT !.audit = Len(audit)],
     by |-> "", expires_at |-> NoExpiry, duration |-> "none", action |-> "",
     clean |-> TRUE, report |-> NoReport,
     decision |-> NoDecision, sweep |-> NoSweep, prev |-> NoPrev]

\* The environment lets calls fail in at most MaxFaulted invocations.
Fails(n) ==
    /\ n > 0 => faulted < MaxFaulted
    /\ faulted' = IF n > 0 THEN faulted + 1 ELSE faulted

Store(db) ==
    /\ ubs' = db.ubs
    /\ ul' = db.ul
    /\ reqs' = db.reqs
    /\ policy' = db.policy
    /\ audit' = db.audit

Administrators == {"admin1"}

\* Custom expirations an administrator sends: a local midnight and a time
\* that is not one.
CustomTimes == {DayLen, DayLen + 1}

ExpiryInputs ==
    {NoExpiry, Indefinite, Unparseable} \cup {CustomExpiry(x) : x \in CustomTimes}

\* The duration field of a block request: absent, one of the tokens the
\* administrators' clients send, or some other word.
Durations == {"none", "1day", "30days", "90days", "indefinite", "custom", "2weeks"}

\* The duration tokens of the command interface; "2weeks" is not one of them.
KnownDurations == {"1day", "30days", "90days", "indefinite", "custom"}

ProvisionedPolicy == PolicyOf(<<blocking_default_allow>>)

\* The accounts that usage events and administrators' commands name.
Active == {"u1"}

ProvisionedLimits ==
    [exists |-> TRUE, daily_request_limit |-> SmallDaily,
     monthly_request_limit |-> SmallMonthly, administrative_safe |-> "N"]

\* At deployment nobody is blocked and nothing is logged. An account is either
\* provisioned (a limits row, a policy) or unknown to the system.
Init ==
    /\ now = 0
    /\ ubs = [u \in Users |-> NoStatus]
    /\ \E known \in SUBSET Active :
        /\ ul = [u \in Users |-> IF u \in known THEN ProvisionedLimits ELSE NoLimits]
        /\ policy = [u \in Users |-> IF u \in known THEN ProvisionedPolicy ELSE NoPolicy]
    /\ reqs = [u \in Users |-> [d \in 0..MaxDay |-> 0]]
    /\ audit = <<>>
    /\ faulted = 0
    /\ proc = NoProcs
    /\ last = Ran("init", "")

\* Time passes.
Tick ==
    /\ now < MaxTime
    /\ now' = now + 1
    /\ last' = Ran("tick", "")
    /\ UNCHANGED <<ubs, ul, reqs, policy, audit, faulted, proc>>

\* lambda_handler on a usage (CloudTrail) event of user u. When it blocks, the
\* second clock read t2 is the time of the first or the instant after it.
UsageEvent(u) ==
    /\ Len(audit) < MaxAudit
    /\ reqs[u][Day(now)] < MaxReq
    /\ \E f \in Faults, parsed \in BOOLEAN, t2 \in {now, now + 1} :
        LET r == handle_cloudtrail_event(Stores, u, now, t2, parsed, f)
        IN  /\ t2 > now => (t2 <= MaxTime /\ r.outcome = "blocked")
            /\ Fails(NumFaults(f))
            /\ Store(r.db)
            /\ last' = [Ran("usage_event", u) EXCEPT !.ok = r.ok, !.code = 200,
                            !.outcome = r.outcome, !.steps = r.steps,
                            !.decision = r.decision, !.clean = Clean(f)]
            /\ now' = t2
    /\ UNCHANGED proc

\* lambda_handler on {action: block, user_id: u, performed_by, duration,
\* expires_at}: manual_block_user, which reads expires_at and never duration.
\* D holds the values of the duration field that are sent.
ManualBlockRequest(u, D) ==
    /\ Len(audit) < MaxAudit
    /\ \E f \in Faults, by \in Administrators, expires_at \in ExpiryInputs,
          duration \in D :
        LET r == manual_block_user(Stores, u, now, by, expires_at, f)
        IN  /\ Fails(NumFaults(f))
            /\ Store(r.db)
            /\ last' = [Ran("manual_block", u) EXCEPT !.ok = r.ok,
                            !.code = r.statusCode, !.outcome = r.message,
                            !.steps = r.steps, !.by = by, !.expires_at = expires_at,
                            !.duration = duration, !.clean = Clean(f)]
    /\ UNCHANGED <<now, proc>>

\* A block request without a duration field.
ManualBlock(u) == ManualBlockRequest(u, {"none"})

\* lambda_handler on {action: unblock, user_id: u, performed_by}:
\* manual_unblock_user.
ManualUnblock(u) ==
    /\ Len(audit) < MaxAudit
    /\ \E f \in Faults, by \in Administrators :
        LET r == manual_unblock_user(Stores, u, now, by, f)
        IN  /\ Fails(NumFaults(f))
            /\ Store(r.db)
            /\ last' = [Ran("manual_unblock", u) EXCEPT !.ok = r.ok,
                            !.code = r.statusCode, !.outcome = r.message,
                            !.steps = r.steps, !.by = by, !.clean = Clean(f)]
    /\ UNCHANGED <<now, proc>>

\* lambda_handler of the daily reset job. Either of the two SELECTs may raise,
\* the one of the expired blocks or the one of the protected active accounts.
Sweep ==
    /\ \E failed_query \in {"none", "expired", "admin_safe"},
          F \in SweepFaultChoices(Stores, now) :
        LET query_fails == failed_query # "none"
            r == unblock_all_blocked_users_and_notify(Stores, now, query_fails, F)
        IN  /\ Fails((IF query_fails THEN 1 ELSE 0)
                      + Cardinality({u \in Users : F[u] # NoFaults}))
            /\ Store(r.db)
            /\ last' = [Ran("daily_reset", "") EXCEPT !.code = 200,
                            !.sweep = [r.res EXCEPT !.before = Before,
                                                    !.failed_query = failed_query]]
    /\ UNCHANGED <<now, proc>>

\* The daily reset job, run while the audit log is short of MaxAudit rows.
DailyReset ==
    /\ Len(audit) < MaxAudit
    /\ Sweep

Next ==
    \/ Tick
    \/ \E u \in Active : UsageEvent(u)
    \/ \E u \in Active : ManualBlock(u)
    \/ \E u \in Active : ManualUnblock(u)
    \/ DailyReset

Spec == Init /\ [][Next]_vars

-----------------------------------------------------------------------------
(* The policy synchronizer on its own: any stored document, any sequence of  *)
(* implement_iam_blocking and implement_iam_unblocking calls.                *)

PolicyDocuments ==
    {NoPolicy} \cup {PolicyOf(stmts) : stmts \in UNION {[1..n -> Statements] : n \in 0..MaxStmts}}

InitPolicy ==
    /\ now = 0
    /\ ubs = [u \in Users |-> NoStatus]
    /\ ul = [u \in Users |-> NoLimits]
    /\ \E doc \in PolicyDocuments :
        policy = [u \in Users |-> IF u \in Active THEN doc ELSE NoPolicy]
    /\ reqs = [u \in Users |-> [d \in 0..MaxDay |-> 0]]
    /\ audit = <<>>
    /\ faulted = 0
    /\ proc = NoProcs
    /\ last = Ran("init", "")

Wrote(r) == IF r.wrote THEN "wrote" ELSE "unchanged"

AddDeny(u) ==
    /\ \E fault \in IamFaults :
        LET r == implement_iam_blocking(policy[u], fault)
        IN  /\ policy' = [policy EXCEPT ![u] = r.doc]
            /\ last' = [Ran("implement_iam_blocking", u) EXCEPT !.ok = r.ok,
                            !.outcome = Wrote(r), !.steps = r.calls, !.prev = Prev]
    /\ UNCHANGED <<now, ubs, ul, reqs, audit, faulted, proc>>

RemoveDeny(u) ==
    /\ \E fault \in IamFaults :
        LET r == implement_iam_unblocking(policy[u], fault)
        IN  /\ policy' = [policy EXCEPT ![u] = r.doc]
            /\ last' = [Ran("implement_iam_unblocking", u) EXCEPT !.ok = r.ok,
                            !.outcome = Wrote(r), !.steps = r.calls, !.prev = Prev]
    /\ UNCHANGED <<now, ubs, ul, reqs, audit, faulted, proc>>

DailyResetRemoveDeny(u) ==
    /\ \E fault \in IamFaults :
        LET r == daily_reset_implement_iam_unblocking(policy[u], fault)
        IN  /\ policy' = [policy EXCEPT ![u] = r.doc]
            /\ last' = [Ran("daily_reset_implement_iam_unblocking", u) EXCEPT !.ok = r.ok,
                            !.outcome = Wrote(r), !.steps = r.calls, !.prev = Prev]
    /\ UNCHANGED <<now, ubs, ul, reqs, audit, faulted, proc>>

NextPolicy ==
    \/ \E u \in Active : AddDeny(u)
    \/ \E u \in Active : RemoveDeny(u)
    \/ \E u \in Active : DailyResetRemoveDeny(u)

SpecPolicy == InitPolicy /\ [][NextPolicy]_vars

-----------------------------------------------------------------------------
(* The usage evaluator on its own: any limits row, any counts.               *)

MaxLimit == 2       \* largest limit of a limits row the evaluator is given

EvalLimits == 1..MaxLimit

EvalRows ==
    {NoLimits} \cup [exists : {TRUE}, daily_request_limit : EvalLimits,
                     monthly_request_limit : EvalLimits, administrative_safe : {"Y", "N"}]

\* Nobody is blocked; the requests logged so far lie on days up to today.
InitEval ==
    /\ now \in 0..MaxTime
    /\ ubs = [u \in Users |-> NoStatus]
    /\ \E row \in EvalRows :
        /\ ul = [u \in Users |-> IF u \in Active THEN row ELSE NoLimits]
        /\ policy = [u \in Users |-> IF u \in Active /\ row.exists
                                      THEN ProvisionedPolicy ELSE NoPolicy]
    /\ \E counts \in [0..MaxDay -> 0..MaxReq] :
        /\ \A d \in 0..MaxDay : d > Day(now) => counts[d] = 0
        /\ reqs = [u \in Users |-> IF u \in Active THEN counts
                                    ELSE [d \in 0..MaxDay |-> 0]]
    /\ audit = <<>>
    /\ faulted = 0
    /\ proc = NoProcs
    /\ last = Ran("init", "")

\* check_user_limits_with_protection called on user u.
Evaluate(u) ==
    /\ last' = [Ran("check_user_limits_with_protection", u) EXCEPT
                    !.decision = check_user_limits_with_protection(Stores, u, now)]
    /\ UNCHANGED <<now, ubs, ul, reqs, policy, audit, faulted, proc>>

NextEval ==
    \/ \E u \in Active : Evaluate(u)
    \/ \E u \in Active : UsageEvent(u)

SpecEval == InitEval /\ [][NextEval]_vars

-----------------------------------------------------------------------------
(* The usage evaluator around the default limits: an account without limits  *)
(* row or with the row of the defaults, counts at, below and above them.     *)

DefaultCounts ==
    {0, 1, DEFAULT_DAILY_LIMIT - 1, DEFAULT_DAILY_LIMIT, DEFAULT_DAILY_LIMIT + 1,
     DEFAULT_MONTHLY_LIMIT - 1, DEFAULT_MONTHLY_LIMIT}

InitDefaults ==
    /\ now \in 0..MaxTime
    /\ ubs = [u \in Users |-> NoStatus]
    /\ \E row \in {NoLimits, default_limits("N")} :
        ul = [u \in Users |-> IF u \in Active THEN row ELSE NoLimits]
    /\ policy = [u \in Users |-> IF u \in Active THEN ProvisionedPolicy ELSE NoPolicy]
    /\ \E counts \in [0..MaxDay -> DefaultCounts] :
        /\ \A d \in 0..MaxDay : d > Day(now) => counts[d] = 0
        /\ reqs = [u \in Users |-> IF u \in Active THEN counts
                                    ELSE [d \in 0..MaxDay |-> 0]]
    /\ audit = <<>>
    /\ faulted = 0
    /\ proc = NoProcs
    /\ last = Ran("init", "")

NextDefaults == \E u \in Active : Evaluate(u)

SpecDefaults == InitDefaults /\ [][NextDefaults]_vars

-----------------------------------------------------------------------------
(* The administrators' block command with every duration token.              *)

\* The action field of a command: absent, one handle_api_event routes, or a
\* word it does not know.
CommandActions == {"absent", "block", "unblock", "check_status", "purge"}

\* lambda_handler on a command that is carried out by none of
\* manual_block_user, manual_unblock_user and check_user_status. With both
\* fields present handle_api_event answers 400 to the unknown action; with
\* action or user_id missing the event goes to handle_cloudtrail_event, which
\* finds no usage event in it and answers 200.
lambda_handler_other(action, has_user_id) ==
    IF action # "absent" /\ has_user_id
    THEN [statusCode |-> 400, message |-> "Invalid action"]
    ELSE [statusCode |-> 200, message |-> "Successfully processed"]

OtherCommand(u) ==
    /\ \E action \in CommandActions, has_user_id \in BOOLEAN :
        /\ ~(action \in {"block", "unblock", "check_status"} /\ has_user_id)
        /\ LET r == lambda_handler_other(action, has_user_id)
           IN  last' = [Ran("other_command", IF has_user_id THEN u ELSE "") EXCEPT
                            !.code = r.statusCode, !.outcome = r.message,
                            !.action = action]
    /\ UNCHANGED <<now, ubs, ul, reqs, policy, audit, faulted, proc>>

NextManual ==
    \/ Tick
    \/ \E u \in Active : ManualBlockRequest(u, Durations)
    \/ \E u \in Active : OtherCommand(u)

SpecManual == Init /\ [][NextManual]_vars

-----------------------------------------------------------------------------
(* The daily reset job over several accounts: each account starts as the     *)
(* administrators' commands left it, then time passes and the job runs.       *)

EmptyStores ==
    [ubs |-> [u \in Users |-> NoStatus], ul |-> [u \in Users |-> NoLimits],
     reqs |-> [u \in Users |-> [d \in 0..MaxDay |-> 0]],
     policy |-> [u \in Users |-> NoPolicy], audit |-> <<>>]

\* How an account came to the state the job finds it in: unknown to the
\* system, provisioned, or provisioned and manually unblocked (protected); and
\* on top of that manually blocked at time 0, or not.
Histories ==
    {h \in [base : {"unknown", "provisioned", "protected"}, blocked : BOOLEAN,
            expires_at : {NoExpiry, Indefinite} \cup {CustomExpiry(x) : x \in CustomTimes}] :
        ~h.blocked => h.expires_at = NoExpiry}

\* The stores after the commands of history h were carried out for user u.
After(db, u, h) ==
    LET db1 == IF h.base = "unknown" THEN db
               ELSE [db EXCEPT !.ul[u] = ProvisionedLimits,
                               !.policy[u] = ProvisionedPolicy]
        db2 == IF h.base = "protected"
               THEN manual_unblock_user(db1, u, 0, "admin1", NoFaults).db
               ELSE db1
    IN  IF h.blocked
        THEN manual_block_user(db2, u, 0, "admin1", h.expires_at, NoFaults).db
        ELSE db2

RECURSIVE AfterAll(_, _, _)
AfterAll(db, H, i) ==
    IF i > Len(UserOrder) THEN db
    ELSE AfterAll(After(db, UserOrder[i], H[UserOrder[i]]), H, i + 1)

InitSweep ==
    /\ now = 0
    /\ \E H \in [Users -> Histories] :
        LET db == AfterAll(EmptyStores, H, 1)
        IN  /\ ubs = db.ubs
            /\ ul = db.ul
            /\ reqs = db.reqs
            /\ policy = db.policy
            /\ audit = db.audit
    /\ faulted = 0
    /\ proc = NoProcs
    /\ last = Ran("init", "")

\* remove_administrative_safe_flag called for an account that is not blocked,
\* as the second loop of the job calls it; the flag may be gone by then.
RemoveAdministrativeSafeFlag(u) ==
    /\ ~(ubs[u].exists /\ ubs[u].is_blocked = "Y")
    /\ \E f \in {g \in SweepFaults : ~g.status /\ g.iam = "none" /\ g.mail = "ok"} :
        LET r == remove_administrative_safe_flag(Stores, u, now, f)
        IN  /\ Fails(IF f = NoFaults THEN 0 ELSE 1)
            /\ Store(r.db)
            /\ last' = [Ran("remove_administrative_safe_flag", u) EXCEPT
                            !.ok = r.ok, !.steps = r.steps]
    /\ UNCHANGED <<now, proc>>

NextSweep ==
    \/ Tick
    \/ Sweep
    \/ \E u \in Users : RemoveAdministrativeSafeFlag(u)

SpecSweep == InitSweep /\ [][NextSweep]_vars

\* The daily reset job is scheduled again and again (EventBridge rule).
SpecSweepFair == SpecSweep /\ WF_vars(Sweep)

-----------------------------------------------------------------------------
(* The automatic logic on its own: usage events and the daily reset job, with *)
(* no administrator's command.                                                *)

NextAuto ==
    \/ Tick
    \/ \E u \in Active : UsageEvent(u)
    \/ Sweep

SpecAuto == Init /\ [][NextAuto]_vars

\* The daily reset job is scheduled again and again (EventBridge rule).
SpecAutoFair == SpecAuto /\ WF_vars(Sweep)

-----------------------------------------------------------------------------
(* Two invocations for the same account at the same time. The handlers take  *)
(* no lock and every statement is committed on its own (autocommit), so the   *)
(* calls of two invocations can alternate in any order.                        *)

RaceUser == "u1"

Triggers == {"usage_event", "manual_block", "manual_unblock", "daily_reset"}

\* The store and IAM calls of each handler, in the order of its code. The
\* usage event and the daily reset start with the reads that decide whether
\* anything is done for the account.
Calls(op) ==
    CASE op = "usage_event" -> <<"decide", "status", "iam_get", "iam_put", "audit">>
      [] op = "manual_block" -> <<"status", "audit", "iam_get", "iam_put">>
      [] op = "manual_unblock" -> <<"status", "limits", "audit", "iam_get", "iam_put">>
      [] OTHER -> <<"decide", "status", "limits", "audit", "iam_get", "iam_put">>

Invocation(op) == [op |-> op, todo |-> Calls(op), doc |-> NoPolicy, reason |-> ""]

\* The reads at the start of an invocation. handle_cloudtrail_event goes on to
\* execute_user_blocking when the account is not blocked and over a limit, and
\* logs the request otherwise; the daily reset goes on to unblock an account
\* of its first query and to remove the flag of one of its second query.
Decide(db, p, t) ==
    LET u == RaceUser
        st == check_user_blocking_status(db, u, t, NoFaults)
        dec == check_user_limits_with_protection(st.db, u, t)
    IN  IF p.op = "usage_event"
        THEN IF st.is_blocked
             THEN [db |-> st.db, p |-> [p EXCEPT !.todo = <<>>]]
             ELSE IF dec.should_block
             THEN [db |-> st.db, p |-> [p EXCEPT !.todo = Tail(@),
                                                 !.reason = dec.block_reason]]
             ELSE [db |-> log_bedrock_request_cet(st.db, u, t),
                   p |-> [p EXCEPT !.todo = <<>>]]
        ELSE IF u \in expired_blocked_users(db, t)
             THEN [db |-> db, p |-> [p EXCEPT !.todo = Tail(@)]]
             ELSE IF u \in active_admin_safe_users(db)
             THEN [db |-> db, p |-> [p EXCEPT !.todo = <<"flag">>]]
             ELSE [db |-> db, p |-> [p EXCEPT !.todo = <<>>]]

\* The status write of each handler.
StatusWrite(db, p, t) ==
    LET u == RaceUser
    IN  CASE p.op = "usage_event" ->
                [db EXCEPT !.ubs[u] = blocked_row(p.reason, t, next_midnight(t))]
          [] p.op = "manual_block" ->
                [db EXCEPT !.ubs[u] = blocked_row("Manual admin block", t,
                                                  admin_blocked_until(t, NoExpiry))]
          [] p.op = "manual_unblock" ->
                [db EXCEPT !.ubs[u] = unblocked_row(@, "Manual admin unblock")]
          [] OTHER ->
                [db EXCEPT !.ubs[u] = IF @.exists
                                      THEN [@ EXCEPT !.is_blocked = "N",
                                                     !.blocked_reason = "Daily reset unblock",
                                                     !.blocked_until = NULL]
                                      ELSE @]

\* The write of the protection flag: set by the manual unblock, cleared by
\* the daily reset.
LimitsWrite(db, p) ==
    LET u == RaceUser
    IN  IF p.op = "manual_unblock"
        THEN [db EXCEPT !.ul[u] = IF @.exists THEN set_administrative_safe(@, "Y")
                                  ELSE default_limits("Y")]
        ELSE [db EXCEPT !.ul[u] = set_administrative_safe(@, "N")]

AuditWrite(db, p, t) ==
    LET u == RaceUser
        row == CASE p.op = "usage_event" -> audit_row(u, "BLOCK", "system", t, "Y", "Y")
                 [] p.op = "manual_block" -> audit_row(u, "BLOCK", "admin1", t, "-", "-")
                 [] p.op = "manual_unblock" -> audit_row(u, "UNBLOCK", "admin1", t, "-", "-")
                 [] OTHER -> audit_row(u, "UNBLOCK", "daily_reset", t, "-", "-")
    IN  [db EXCEPT !.audit = Append(@, row)]

\* put_user_policy with the document built from the one get_user_policy
\* returned earlier in the same invocation.
PolicyWrite(db, p) ==
    LET u == RaceUser
        new == CASE p.op \in {"usage_event", "manual_block"} ->
                        implement_iam_blocking(p.doc, "none")
                 [] p.op = "manual_unblock" -> implement_iam_unblocking(p.doc, "none")
                 [] OTHER -> daily_reset_implement_iam_unblocking(p.doc, "none")
    IN  IF new.wrote THEN [db EXCEPT !.policy[u] = new.doc] ELSE db

\* The next call of invocation p.
Call(db, p, t) ==
    LET c == Head(p.todo)
        rest == [p EXCEPT !.todo = Tail(@)]
    IN  CASE c = "decide" -> Decide(db, p, t)
          [] c = "status" -> [db |-> StatusWrite(db, p, t), p |-> rest]
          [] c = "limits" -> [db |-> LimitsWrite(db, p), p |-> rest]
          [] c = "audit" -> [db |-> AuditWrite(db, p, t), p |-> rest]
          [] c = "iam_get" -> [db |-> db, p |-> [rest EXCEPT !.doc = db.policy[RaceUser]]]
          [] c = "iam_put" -> [db |-> PolicyWrite(db, p), p |-> rest]
          [] OTHER -> [db |-> remove_administrative_safe_flag(db, RaceUser, t, NoFaults).db,
                       p |-> rest]

\* Invocation p run from start to end with nothing in between.
RECURSIVE Alone(_, _, _)
Alone(db, p, t) ==
    IF p.todo = <<>> THEN db
    ELSE LET r == Call(db, p, t) IN Alone(r.db, r.p, t)

\* The account as two triggers find it: provisioned, with today's requests at
\* the daily limit or none, and as an administrator's commands left it.
InitRace ==
    /\ now \in {0, DayLen}
    /\ \E h \in {g \in Histories : g.base # "unknown"}, used \in {0, SmallDaily},
          a \in Triggers, b \in Triggers :
        LET db0 == After(EmptyStores, RaceUser, h)
            db == [db0 EXCEPT !.reqs[RaceUser][Day(now)] = used]
        IN  /\ ubs = db.ubs
            /\ ul = db.ul
            /\ reqs = db.reqs
            /\ policy = db.policy
            /\ audit = db.audit
            /\ proc = <<Invocation(a), Invocation(b), [start |-> db]>>
    /\ faulted = 0
    /\ last = Ran("init", "")

\* Invocation i makes its next call.
Proceed(i) ==
    /\ proc[i].todo # <<>>
    /\ LET r == Call(Stores, proc[i], now)
       IN  /\ Store(r.db)
           /\ proc' = [proc EXCEPT ![i] = r.p]
    /\ last' = Ran(proc[i].op, RaceUser)
    /\ UNCHANGED <<now, faulted>>

NextRace ==
    \/ Proceed(1)
    \/ Proceed(2)

SpecRace == InitRace /\ [][NextRace]_vars

-----------------------------------------------------------------------------
(* One invocation, call by call, that may be cut short: the Lambda times out *)
(* or its process dies between two calls. Every store write is committed on  *)
(* its own (autocommit) and the policy is written by a separate call, so     *)
(* what was written stays.                                                   *)

\* No invocation.
Idle == [op |-> "none", todo |-> <<>>, doc |-> NoPolicy, reason |-> ""]

InitCrash ==
    /\ now \in {0, DayLen}
    /\ \E h \in {g \in Histories : g.base # "unknown"}, used \in {0, SmallDaily},
          a \in Triggers :
        LET db0 == After(EmptyStores, RaceUser, h)
            db == [db0 EXCEPT !.reqs[RaceUser][Day(now)] = used]
        IN  /\ ubs = db.ubs
            /\ ul = db.ul
            /\ reqs = db.reqs
            /\ policy = db.policy
            /\ audit = db.audit
            /\ proc = <<Invocation(a), Idle, [start |-> db]>>
    /\ faulted = 0
    /\ last = Ran("init", "")

\* Invocation i ends where it is; its remaining calls are never made.
Crash(i) ==
    /\ proc[i].todo # <<>>
    /\ proc' = [proc EXCEPT ![i].todo = <<>>]
    /\ last' = [Ran("crash", RaceUser) EXCEPT !.ok = FALSE]
    /\ UNCHANGED <<now, ubs, ul, reqs, policy, audit, faulted>>

NextCrash ==
    \/ Proceed(1)
    \/ Crash(1)

SpecCrash == InitCrash /\ [][NextCrash]_vars

-----------------------------------------------------------------------------
(* Properties. They are stated over `last`, the record of the handler that  *)
(* ran last, and the stores as that handler left them.                      *)

HasStep(steps, name, ok) == \E i \in 1..Len(steps) : steps[i] = Step(name, ok)

CountSteps(steps, name) == Cardinality({i \in 1..Len(steps) : steps[i].step = name})

AllStepsOk(steps) == \A i \in 1..Len(steps) : steps[i].ok

IsBlocked(row) == row.exists /\ row.is_blocked = "Y"

IsProtected(row) == row.exists /\ row.administrative_safe = "Y"

\* The audit rows the last handler appended.
Appended == SubSeq(audit, last.pre.audit + 1, Len(audit))

AppendedFor(u, op) ==
    Cardinality({i \in 1..Len(Appended) :
                    Appended[i].user_id = u /\ Appended[i].operation_type = op})

DenyCount(stmts) ==
    Cardinality({i \in 1..Len(stmts) : stmts[i].Sid = "DailyLimitBlock"})

OtherStatements(stmts) == SelectSeq(stmts, LAMBDA stmt : stmt.Sid # "DailyLimitBlock")

RECURSIVE IsSubsequence(_, _)
IsSubsequence(a, b) ==
    IF a = <<>> THEN TRUE
    ELSE IF b = <<>> THEN FALSE
    ELSE IF Head(a) = Head(b) THEN IsSubsequence(Tail(a), Tail(b))
    ELSE IsSubsequence(a, Tail(b))

\* C1: a manual block request on an account that is already BLOCKED, with
\* every call it makes succeeding, answers success with an "already blocked"
\* indicator and has none of the side effects of a block: the status row and
\* the policy are as before, no audit row is appended, no policy update and no
\* notification is attempted.
C1_IdempotentBlock ==
    (last.op = "manual_block" /\ IsBlocked(last.pre.ubs) /\ AllStepsOk(last.steps)) =>
        /\ last.ok
        /\ last.outcome = "already blocked"
        /\ ubs[last.user] = last.pre.ubs
        /\ policy[last.user] = last.pre.policy
        /\ Len(audit) = last.pre.audit
        /\ last.steps = <<>>

\* C2: on an account with administrative_safe = 'Y' the evaluator decides
\* (no block, no reason) whatever the two counts are, and a usage event on a
\* protected account that is not blocked leaves it not blocked.
C2_ProtectionOverridesAutoBlock ==
    (/\ last.op \in {"check_user_limits_with_protection", "usage_event"}
     /\ IsProtected(last.pre.ul) /\ ~IsBlocked(last.pre.ubs)) =>
        /\ last.decision = NoDecision
        /\ ~IsBlocked(ubs[last.user])
        /\ last.outcome # "blocked"

\* A usage event found the protected account above both limits and logged the
\* request.
C2_Witness ==
    /\ last.op = "usage_event" /\ last.outcome = "logged"
    /\ IsProtected(last.pre.ul) /\ ~IsBlocked(last.pre.ubs)
    /\ reqs[last.user][Day(now)] - 1 > last.pre.ul.daily_request_limit
    /\ monthly_requests_used(Stores, last.user, now) - 1 > last.pre.ul.monthly_request_limit
    /\ ~IsBlocked(ubs[last.user])

\* C3: for an unprotected account the evaluator's decision is: block with
\* 'Daily limit exceeded' when today's count is at or above the daily limit;
\* otherwise block with 'Monthly limit exceeded' when the month's count is at
\* or above the monthly limit; otherwise no block and no reason.
C3_EvaluateReference ==
    (last.op = "check_user_limits_with_protection" /\ ~IsProtected(last.pre.ul)) =>
        LET today == reqs[last.user][Day(now)]
            month == monthly_requests_used(Stores, last.user, now)
            daily_limit == IF ul[last.user].exists
                           THEN ul[last.user].daily_request_limit ELSE 350
            monthly_limit == IF ul[last.user].exists
                             THEN ul[last.user].monthly_request_limit ELSE 5000
        IN  /\ today >= daily_limit =>
                last.decision = [should_block |-> TRUE,
                                 block_reason |-> "Daily limit exceeded"]
            /\ (today < daily_limit /\ month >= monthly_limit) =>
                last.decision = [should_block |-> TRUE,
                                 block_reason |-> "Monthly limit exceeded"]
            /\ (today < daily_limit /\ month < monthly_limit) =>
                last.decision = [should_block |-> FALSE, block_reason |-> "None"]

\* The evaluator found today's count exactly at the daily limit and the
\* month's count at or above the monthly limit, and gave the daily reason.
C3_Witness ==
    /\ last.op = "check_user_limits_with_protection"
    /\ ul[last.user].exists /\ ul[last.user].administrative_safe = "N"
    /\ reqs[last.user][Day(now)] = ul[last.user].daily_request_limit
    /\ monthly_requests_used(Stores, last.user, now) >= ul[last.user].monthly_request_limit
    /\ last.decision = [should_block |-> TRUE, block_reason |-> "Daily limit exceeded"]

\* C4: when the automatic block has written the status row and the policy
\* update then fails, the block returns failure, the account is BLOCKED by the
\* row just written, and the BLOCK audit row of this block, when its insert
\* goes through, records iam_policy_updated = 'N' (no BLOCK row when it does
\* not).
C4_AutoBlockPolicyFailure ==
    (last.op = "usage_event" /\ HasStep(last.steps, "iam_blocking", FALSE)) =>
        /\ last.outcome = "blocked"
        /\ ~last.ok
        /\ IsBlocked(ubs[last.user])
        /\ ubs[last.user].blocked_at = now
        /\ ubs[last.user].blocked_until = next_midnight(last.at)
        /\ IF HasStep(last.steps, "audit", TRUE)
           THEN /\ AppendedFor(last.user, "BLOCK") = 1
                /\ audit[Len(audit)].user_id = last.user
                /\ audit[Len(audit)].operation_type = "BLOCK"
                /\ audit[Len(audit)].performed_by = "system"
                /\ audit[Len(audit)].iam_policy_updated = "N"
           ELSE AppendedFor(last.user, "BLOCK") = 0

\* An automatic block whose policy update failed: reported failed, the account
\* BLOCKED, the policy without the deny statement, the audit row written.
C4_Witness ==
    /\ last.op = "usage_event" /\ HasStep(last.steps, "iam_blocking", FALSE)
    /\ ~last.ok
    /\ IsBlocked(ubs[last.user])
    /\ ~HasDeny(policy[last.user].Statement)
    /\ Len(audit) = last.pre.audit + 1
    /\ audit[Len(audit)].iam_policy_updated = "N"

\* C5: a manual block whose policy update fails is answered as failed (500),
\* and a manual block answered 200 leaves the deny statement in the policy.
C5_ManualBlockPolicyFailureReported ==
    last.op = "manual_block" =>
        /\ HasStep(last.steps, "iam_blocking", FALSE) => (~last.ok /\ last.code = 500)
        /\ last.code = 200 => HasDeny(policy[last.user].Statement)

\* C6: an unblock whose status write went through and whose policy update
\* failed still succeeds and leaves the account not blocked: the expiration
\* unblock of the controller (the usage event goes on as for an account that
\* is not blocked), the manual unblock (its protection write having gone
\* through), and the unblock of the daily reset.
C6_UnblockPolicyFailureNotFatal ==
    /\ (last.op = "usage_event" /\ HasStep(last.steps, "iam_unblocking", FALSE)) =>
        /\ last.outcome # "skipped_blocked"
        /\ last.outcome # "blocked" => ~IsBlocked(ubs[last.user])
    /\ (/\ last.op = "manual_unblock"
        /\ HasStep(last.steps, "iam_unblocking", FALSE)
        /\ HasStep(last.steps, "limits", TRUE)) =>
        /\ last.ok /\ last.code = 200
        /\ ~IsBlocked(ubs[last.user])
    /\ last.op = "daily_reset" =>
        \A u \in Users :
            HasStep(last.sweep.steps[u], "iam_unblocking", FALSE) =>
                /\ u \in last.sweep.unblocked_users
                /\ ~IsBlocked(ubs[u])

\* A manual unblock of a BLOCKED account whose policy update failed: answered
\* 200, the account not blocked, the deny statement still in the policy.
C6_Witness ==
    /\ last.op = "manual_unblock" /\ IsBlocked(last.pre.ubs)
    /\ HasStep(last.steps, "iam_unblocking", FALSE)
    /\ last.ok /\ last.code = 200
    /\ ~IsBlocked(ubs[last.user])
    /\ HasDeny(policy[last.user].Statement)

\* C7: pass 1 of the daily reset selects an account only when its
\* blocked_until is not NULL and not after the current time, and an account
\* blocked with blocked_until NULL is still blocked after the daily reset.
C7_IndefiniteNeverSwept ==
    last.op = "daily_reset" =>
        \A u \in Users :
            /\ u \in last.sweep.expired =>
                /\ last.sweep.before[u].ubs.blocked_until # NULL
                /\ last.sweep.before[u].ubs.blocked_until <= now
            /\ (/\ IsBlocked(last.sweep.before[u].ubs)
                /\ last.sweep.before[u].ubs.blocked_until = NULL) => IsBlocked(ubs[u])

\* C8: after a daily reset that met no error, every account it found BLOCKED
\* with a blocked_until that is not NULL and not after the current time is not
\* blocked, has blocked_until NULL and administrative_safe not 'Y', had the
\* policy update attempted exactly once, and has one UNBLOCK audit row
\* appended.
C8_ExpiredBlockSwept ==
    (last.op = "daily_reset" /\ last.sweep.errors = 0) =>
        \A u \in Users :
            (/\ IsBlocked(last.sweep.before[u].ubs)
             /\ last.sweep.before[u].ubs.blocked_until # NULL
             /\ last.sweep.before[u].ubs.blocked_until <= now) =>
                /\ ~IsBlocked(ubs[u])
                /\ ubs[u].blocked_until = NULL
                /\ ~IsProtected(ul[u])
                /\ CountSteps(last.sweep.steps[u], "iam_unblocking") = 1
                /\ AppendedFor(u, "UNBLOCK") = 1

\* C9: a successful manual unblock leaves administrative_safe = 'Y' (on the
\* default limits row when the account had none); a manual unblock whose
\* protection write fails is answered as failed; and protection, once set,
\* stays until an expiration unblock of the controller or the daily reset
\* clears it, every usage event on the protected, not blocked account until
\* then deciding not to block.
C9_ManualUnblockShields ==
    /\ (last.op = "manual_unblock" /\ last.ok) =>
        /\ IsProtected(ul[last.user])
        /\ ~last.pre.ul.exists => ul[last.user] = default_limits("Y")
        /\ last.pre.ul.exists =>
            ul[last.user] = [last.pre.ul EXCEPT !.administrative_safe = "Y"]
    /\ (last.op = "manual_unblock" /\ HasStep(last.steps, "limits", FALSE)) =>
        (~last.ok /\ last.code = 500)
    /\ (/\ last.op \in {"usage_event", "manual_block", "manual_unblock"}
        /\ IsProtected(last.pre.ul)
        /\ ~IsProtected(ul[last.user])) =>
        /\ last.op = "usage_event"
        /\ IsBlocked(last.pre.ubs)
        /\ last.pre.ubs.blocked_until # NULL /\ last.pre.ubs.blocked_until <= now
    /\ (last.op = "usage_event" /\ IsProtected(last.pre.ul) /\ ~IsBlocked(last.pre.ubs)) =>
        /\ last.decision = NoDecision
        /\ last.outcome \in {"logged", "skipped_unparsed"}
        /\ ~IsBlocked(ubs[last.user])
    /\ last.op = "daily_reset" =>
        \A u \in Users :
            (IsProtected(last.sweep.before[u].ul) /\ ~IsProtected(ul[u])) =>
                u \in last.sweep.expired \cup last.sweep.admin_safe

\* After a manual unblock a usage event found the account protected, not
\* blocked and at or above its daily limit, and logged the request.
C9_Witness ==
    /\ last.op = "usage_event" /\ last.outcome = "logged"
    /\ IsProtected(last.pre.ul) /\ ~IsBlocked(last.pre.ubs)
    /\ reqs[last.user][Day(now)] - 1 >= last.pre.ul.daily_request_limit
    /\ \E i \in 1..Len(audit) :
        audit[i].user_id = last.user /\ audit[i].operation_type = "UNBLOCK"
           /\ audit[i].performed_by \in Administrators

PolicyOps ==
    {"implement_iam_blocking", "implement_iam_unblocking",
     "daily_reset_implement_iam_unblocking"}

\* C10: after a call of the policy synchronizer that returned success or
\* stored a document, the document holds at most one statement with Sid
\* 'DailyLimitBlock', whatever it held before; after any call, the statements
\* with another Sid that were there before are all there, unmodified and in
\* the same relative order.
C10_PolicyDocumentInvariant ==
    last.op \in PolicyOps =>
        /\ (last.ok \/ last.outcome = "wrote") =>
            DenyCount(policy[last.user].Statement) <= 1
        /\ IsSubsequence(OtherStatements(last.pre.policy.Statement),
                         OtherStatements(policy[last.user].Statement))

\* implement_iam_blocking stored a document in place of one that held several
\* deny statements among other statements.
C10_Witness ==
    /\ last.op = "implement_iam_blocking" /\ last.outcome = "wrote"
    /\ DenyCount(last.pre.policy.Statement) >= 2
    /\ Len(OtherStatements(last.pre.policy.Statement)) >= 1
    /\ DenyCount(policy[last.user].Statement) = 1
    /\ Len(policy[last.user].Statement) = Len(OtherStatements(last.pre.policy.Statement)) + 1

UnblockingOps == {"implement_iam_unblocking", "daily_reset_implement_iam_unblocking"}

\* The last two synchronizer calls were an implement_iam_blocking that returned
\* True on an existing document without deny statement, then an
\* implement_iam_unblocking that returned True.
RoundTrip ==
    /\ last.op \in UnblockingOps /\ last.ok /\ last.outcome = "wrote"
    /\ last.prev.op = "implement_iam_blocking"
    /\ last.prev.policy.exists
    /\ DenyCount(last.prev.policy.Statement) = 0

AnyAllow(stmts) == \E i \in 1..Len(stmts) : stmts[i].Effect = "Allow"

\* C11 as stated, for N >= 1: implement_iam_blocking followed by
\* implement_iam_unblocking on a document of N statements without the deny
\* Sid, whatever their effects, leaves exactly the original statements in the
\* original order, nothing added.
C11_RoundTripExact ==
    (RoundTrip /\ Len(last.prev.policy.Statement) >= 1) =>
        policy[last.user].Statement = last.prev.policy.Statement

\* C11, amended: implement_iam_blocking followed by implement_iam_unblocking
\* on a document without the deny Sid leaves exactly the original statements
\* in the original order when one of them has Effect Allow; when none has
\* (N = 0 included), it leaves the original statements followed by one allow
\* statement with Sid 'BedrockAccess' for the two Invoke actions.
C11_RoundTrip ==
    RoundTrip =>
        IF AnyAllow(last.prev.policy.Statement)
        THEN policy[last.user].Statement = last.prev.policy.Statement
        ELSE policy[last.user].Statement =
                Append(last.prev.policy.Statement,
                       [Sid |-> "BedrockAccess", Effect |-> "Allow", Action |-> "Invoke"])

\* A round trip on a document that mixes an Allow and a Deny statement gave
\* the document back.
C11_Witness ==
    /\ RoundTrip
    /\ Len(last.prev.policy.Statement) >= 2
    /\ AnyAllow(last.prev.policy.Statement)
    /\ \E i \in 1..Len(last.prev.policy.Statement) :
        last.prev.policy.Statement[i].Effect = "Deny"
    /\ policy[last.user].Statement = last.prev.policy.Statement

\* C12: implement_iam_blocking returns True only after a verifying re-read
\* that went through and found a statement with Sid 'DailyLimitBlock' in the
\* stored document; whenever it returns True the stored document has the deny
\* statement at index 0; when there was no document it stores the deny
\* statement followed by the default allow; when the read, the write or the
\* verifying re-read fails it returns False.
C12_AddDenyResult ==
    last.op = "implement_iam_blocking" =>
        /\ last.ok =>
            /\ HasStep(last.steps, "verify", TRUE)
            /\ DenyCount(policy[last.user].Statement) >= 1
            /\ policy[last.user].Statement[1].Sid = "DailyLimitBlock"
            /\ policy[last.user].Statement[1].Effect = "Deny"
        /\ (~last.pre.policy.exists /\ last.outcome = "wrote") =>
            policy[last.user].Statement =
                <<[Sid |-> "DailyLimitBlock", Effect |-> "Deny", Action |-> "InvokeConverse"],
                  [Sid |-> "BedrockAccess", Effect |-> "Allow", Action |-> "InvokeConverse"]>>
        /\ ~AllStepsOk(last.steps) => ~last.ok
        /\ last.outcome = "unchanged" => policy[last.user] = last.pre.policy

\* implement_iam_blocking returned True on a document that began with an allow
\* statement: the stored document begins with the deny statement.
C12_Witness ==
    /\ last.op = "implement_iam_blocking" /\ last.ok
    /\ last.pre.policy.exists /\ Len(last.pre.policy.Statement) >= 2
    /\ last.pre.policy.Statement[1].Effect = "Allow"
    /\ last.pre.policy.Statement[1].Sid # "DailyLimitBlock"
    /\ policy[last.user].Statement[1].Sid = "DailyLimitBlock"
    /\ Len(policy[last.user].Statement) >= 2

\* C13: implement_iam_unblocking (of the controller and of the daily reset)
\* (a) returns True and writes nothing when the user has no policy document;
\* (b) otherwise stores the document without any statement with Sid
\* 'DailyLimitBlock', the other statements as they were; (c) appends one
\* default allow statement exactly when no statement with Effect Allow is left
\* after stripping, so the stored document holds an Allow and no deny
\* statement; (d) returns False, the stored document unchanged, when a call
\* fails.
C13_RemoveDenyResult ==
    last.op \in UnblockingOps =>
        LET before == last.pre.policy
            kept == OtherStatements(before.Statement)
            after == policy[last.user]
        IN  /\ (~before.exists /\ HasStep(last.steps, "get_user_policy", TRUE)) =>
                /\ last.ok /\ last.outcome = "unchanged"
                /\ CountSteps(last.steps, "put_user_policy") = 0
                /\ after = before
            /\ (before.exists /\ AllStepsOk(last.steps)) =>
                /\ last.ok /\ last.outcome = "wrote"
            /\ last.outcome = "wrote" =>
                /\ before.exists
                /\ DenyCount(after.Statement) = 0
                /\ AnyAllow(after.Statement)
                /\ IF AnyAllow(kept)
                   THEN after.Statement = kept
                   ELSE after.Statement =
                        Append(kept, [Sid |-> "BedrockAccess", Effect |-> "Allow",
                                      Action |-> "Invoke"])
            /\ ~AllStepsOk(last.steps) =>
                /\ ~last.ok /\ last.outcome = "unchanged"
                /\ after = before

\* The daily reset's implement_iam_unblocking stripped a deny statement from a
\* document that held no Allow, and appended the default allow.
C13_Witness ==
    /\ last.op = "daily_reset_implement_iam_unblocking" /\ last.ok
    /\ last.outcome = "wrote"
    /\ DenyCount(last.pre.policy.Statement) >= 1
    /\ Len(OtherStatements(last.pre.policy.Statement)) >= 1
    /\ ~AnyAllow(OtherStatements(last.pre.policy.Statement))
    /\ Len(policy[last.user].Statement) = Len(OtherStatements(last.pre.policy.Statement)) + 1
    /\ policy[last.user].Statement[Len(policy[last.user].Statement)].Effect = "Allow"

\* C14: an implement_iam_blocking that returns True right after one that
\* returned True leaves the stored document as the first left it, and so does
\* an implement_iam_unblocking right after an implement_iam_unblocking,
\* whatever document (or none) the first started from.
C14_SynchronizerIdempotent ==
    /\ (/\ last.op = "implement_iam_blocking" /\ last.ok
        /\ last.prev.op = "implement_iam_blocking") =>
        policy[last.user] = last.pre.policy
    /\ (last.op \in UnblockingOps /\ last.ok /\ last.prev.op \in UnblockingOps) =>
        policy[last.user] = last.pre.policy

\* implement_iam_blocking ran twice on what began as a document with several
\* deny statements and another statement; the second run stored what the
\* first had stored.
C14_Witness ==
    /\ last.op = "implement_iam_blocking" /\ last.ok /\ last.outcome = "wrote"
    /\ last.prev.op = "implement_iam_blocking"
    /\ DenyCount(last.prev.policy.Statement) >= 2
    /\ Len(OtherStatements(last.prev.policy.Statement)) >= 1
    /\ last.pre.policy # last.prev.policy
    /\ policy[last.user] = last.pre.policy

\* C15: when the write of the status row fails, the transition returns
\* failure and nothing after it happens: it is the only step taken, the
\* status row, the policy and the protection flag are as before, no audit row
\* is appended, no notification is attempted. A failed manual block or
\* unblock is answered 500; a usage event whose expiration unblock failed
\* treats the account as still blocked, one whose block failed reports the
\* failure. The same holds per account in the daily reset.
C15_StoreWriteFailureFatal ==
    /\ (/\ last.op \in {"usage_event", "manual_block", "manual_unblock"}
        /\ HasStep(last.steps, "status", FALSE)) =>
        /\ last.steps = <<Step("status", FALSE)>>
        /\ ubs[last.user] = last.pre.ubs
        /\ policy[last.user] = last.pre.policy
        /\ Len(audit) = last.pre.audit
        /\ IsProtected(ul[last.user]) = IsProtected(last.pre.ul)
        /\ last.op \in {"manual_block", "manual_unblock"} => (~last.ok /\ last.code = 500)
        /\ last.op = "usage_event" =>
            \/ last.outcome = "skipped_blocked"
            \/ last.outcome = "blocked" /\ ~last.ok
    /\ last.op = "daily_reset" =>
        \A u \in Users :
            HasStep(last.sweep.steps[u], "status", FALSE) =>
                /\ last.sweep.steps[u] = <<Step("status", FALSE)>>
                /\ u \notin last.sweep.unblocked_users
                /\ ubs[u] = last.sweep.before[u].ubs
                /\ ul[u] = last.sweep.before[u].ul
                /\ AppendedFor(u, "UNBLOCK") = 0

\* A usage event found an expired block, the status write of the unblock
\* failed: the account is still blocked, with its deny statement, and
\* nothing was logged.
C15_Witness ==
    /\ last.op = "usage_event" /\ last.steps = <<Step("status", FALSE)>>
    /\ last.outcome = "skipped_blocked"
    /\ IsBlocked(last.pre.ubs) /\ last.pre.ubs.blocked_until # NULL
    /\ last.pre.ubs.blocked_until <= now
    /\ IsBlocked(ubs[last.user])
    /\ HasDeny(policy[last.user].Statement)
    /\ Len(audit) = last.pre.audit

OnlyAuditFailed(steps) ==
    /\ HasStep(steps, "status", TRUE)
    /\ HasStep(steps, "audit", FALSE)
    /\ \A i \in 1..Len(steps) : steps[i].ok \/ steps[i].step = "audit"

SynchronizerCalls(steps) ==
    CountSteps(steps, "iam_blocking") + CountSteps(steps, "iam_unblocking")

\* C16: when the status row was written and only the audit insert fails, the
\* transition is carried through: the policy synchronizer is still called and
\* the result is the one reported when the audit insert succeeds (success, 200
\* for a manual command; the account counted as unblocked by the daily reset).
C16_AuditFailureIgnored ==
    /\ (/\ last.op \in {"usage_event", "manual_block", "manual_unblock"}
        /\ OnlyAuditFailed(last.steps)) =>
        /\ SynchronizerCalls(last.steps) >= 1
        /\ last.ok
        /\ last.op \in {"manual_block", "manual_unblock"} => last.code = 200
    /\ last.op = "daily_reset" =>
        \A u \in Users :
            OnlyAuditFailed(last.sweep.steps[u]) =>
                /\ SynchronizerCalls(last.sweep.steps[u]) = 1
                /\ u \in last.sweep.unblocked_users

\* The accounts of the last sweep whose unblock returned success: all three
\* store writes went through.
SweepSucceeded ==
    {u \in last.sweep.expired : HasStep(last.sweep.steps[u], "audit", TRUE)}

SweepFailed == last.sweep.expired \ SweepSucceeded

\* C17: in one sweep, a failed unblock of one account does not stop the sweep:
\* every selected account is attempted, unblocked_count is the number of
\* accounts whose unblock succeeded (and those are unblocked in the store),
\* errors counts every failed account, failed notification and failed
\* protection removal, and the handler answers 200.
C17_SweepIsolation ==
    last.op = "daily_reset" =>
        /\ last.code = 200
        /\ last.sweep.attempted = last.sweep.expired
        /\ last.sweep.unblocked_users = SweepSucceeded
        /\ last.sweep.unblocked_count = Cardinality(SweepSucceeded)
        /\ \A u \in SweepSucceeded : ~IsBlocked(ubs[u])
        /\ last.sweep.errors =
              (IF last.sweep.query_ok THEN 0 ELSE 1)
              + Cardinality(SweepFailed)
              + (last.sweep.unblocked_count - last.sweep.notified_count)
              + (Cardinality(last.sweep.admin_safe) - last.sweep.admin_safe_removed_count)

\* The first account of the sweep fails, the second is still unblocked.
C17_Witness ==
    /\ last.op = "daily_reset"
    /\ last.sweep.expired = {"u1", "u2"}
    /\ SweepFailed = {"u1"}
    /\ last.sweep.unblocked_users = {"u2"}
    /\ ~IsBlocked(ubs["u2"])
    /\ last.sweep.errors = 1

\* The accounts that were ACTIVE, or had no status row, with the protection
\* flag set when the last sweep started.
ActiveProtectedBefore ==
    {u \in Users : /\ ~IsBlocked(last.sweep.before[u].ubs)
                   /\ IsProtected(last.sweep.before[u].ul)}

BlockedBefore == {u \in Users : IsBlocked(last.sweep.before[u].ubs)}

\* C18: the second pass of the sweep selects exactly the accounts that are not
\* blocked and carry the protection flag; for each, the status row is left as
\* it was, the flag is cleared once the update went through, and one
\* ADMIN_SAFE_REMOVED row is appended when the removal succeeded (none
\* otherwise). Blocked accounts are not selected and get no such row. Called
\* for an account whose flag is already clear, the removal succeeds and
\* appends nothing.
C18_ProtectionCleanup ==
    /\ (last.op = "daily_reset" /\ last.sweep.query_ok) =>
        /\ last.sweep.admin_safe = ActiveProtectedBefore
        /\ \A u \in ActiveProtectedBefore :
            /\ ubs[u] = last.sweep.before[u].ubs
            /\ HasStep(last.sweep.steps[u], "limits", TRUE) => ~IsProtected(ul[u])
            /\ u \in last.sweep.admin_safe_removed_users
                  <=> AllStepsOk(last.sweep.steps[u])
            /\ AppendedFor(u, "ADMIN_SAFE_REMOVED") =
                  IF u \in last.sweep.admin_safe_removed_users THEN 1 ELSE 0
        /\ \A u \in BlockedBefore :
            /\ u \notin last.sweep.admin_safe_removed_users
            /\ AppendedFor(u, "ADMIN_SAFE_REMOVED") = 0
            /\ u \notin last.sweep.expired =>
                  /\ ubs[u] = last.sweep.before[u].ubs
                  /\ ul[u] = last.sweep.before[u].ul
    /\ (/\ last.op = "remove_administrative_safe_flag"
        /\ ~IsProtected(last.pre.ul)
        /\ HasStep(last.steps, "limits", TRUE)) =>
        /\ last.ok
        /\ Len(audit) = last.pre.audit
        /\ ul[last.user] = last.pre.ul

\* A sweep cleared the flag of an active account and logged it once while the
\* other account, blocked and protected, kept its flag.
C18_Witness ==
    /\ last.op = "daily_reset"
    /\ ActiveProtectedBefore = {"u1"}
    /\ last.sweep.admin_safe_removed_users = {"u1"}
    /\ ~IsProtected(ul["u1"])
    /\ AppendedFor("u1", "ADMIN_SAFE_REMOVED") = 1
    /\ "u2" \in BlockedBefore \ last.sweep.expired
    /\ IsProtected(ul["u2"])

\* C19: after an automatic block has written the status row, the stored
\* blocked_until E and the stored blocked_at T satisfy E > T, E is a local
\* midnight, and E - T is at most one day.
C19_ExpirationAfterBlock ==
    (/\ last.op = "usage_event"
     /\ last.outcome = "blocked"
     /\ HasStep(last.steps, "status", TRUE)) =>
        LET T == ubs[last.user].blocked_at
            E == ubs[last.user].blocked_until
        IN  /\ E > T
            /\ is_midnight(E)
            /\ E - T <= DayLen

\* The days the duration tokens stand for.
DurationDays == [d \in {"1day", "30days", "90days"} |->
                    CASE d = "1day" -> 1 [] d = "30days" -> 30 [] OTHER -> 90]

\* C20: a manual block that succeeded on a request carrying a duration token
\* and no expires_at stores blocked_until = NULL for 'indefinite' and now plus
\* the duration for '1day', '30days' and '90days'; 'custom' with an explicit
\* timestamp stores that timestamp.
C20_ManualBlockDuration ==
    (last.op = "manual_block" /\ last.ok) =>
        LET E == ubs[last.user].blocked_until
        IN  /\ (last.duration = "indefinite" /\ last.expires_at = NoExpiry) => E = NULL
            /\ (last.duration \in DOMAIN DurationDays /\ last.expires_at = NoExpiry) =>
                  E = last.at + DurationDays[last.duration] * DayLen
            /\ (last.duration = "custom" /\ last.expires_at.kind = "custom") =>
                  E = last.expires_at.at

\* C21: a manual block of an account that is not blocked has no guard: the
\* status write is always attempted, whatever the protection flag and the
\* usage, and once it went through the account is BLOCKED; once the audit
\* write went through too the command succeeds and the one BLOCK row appended
\* names the administrator as performed_by.
C21_ManualBlockUnguarded ==
    (last.op = "manual_block" /\ ~IsBlocked(last.pre.ubs)) =>
        /\ HasStep(last.steps, "status", TRUE) \/ last.steps = <<Step("status", FALSE)>>
        /\ HasStep(last.steps, "status", TRUE) =>
              /\ IsBlocked(ubs[last.user])
              /\ ubs[last.user].blocked_reason = "Manual admin block"
        /\ HasStep(last.steps, "audit", TRUE) =>
              /\ last.ok
              /\ AppendedFor(last.user, "BLOCK") = 1
              /\ audit[Len(audit)].operation_type = "BLOCK"
              /\ audit[Len(audit)].user_id = last.user
              /\ audit[Len(audit)].performed_by = last.by
              /\ last.by \in Administrators

\* A protected, ACTIVE account with no request logged is blocked by the
\* administrator's command.
C21_Witness ==
    /\ last.op = "manual_block"
    /\ last.ok
    /\ ~IsBlocked(last.pre.ubs)
    /\ IsProtected(last.pre.ul)
    /\ \A d \in 0..MaxDay : reqs[last.user][d] = 0
    /\ IsBlocked(ubs[last.user])
    /\ audit[Len(audit)].performed_by = "admin1"

\* The rows of the last action's user and the audit log are as it found them.
Untouched ==
    /\ Len(audit) = last.pre.audit
    /\ last.user \in Users => Snapshot(last.user) = last.pre

\* C22: a command with an unknown action, with action or user_id missing,
\* with an unknown duration token or with an unparseable expires_at is
\* answered 400 and changes no row, policy document or audit log.
C22_InvalidRequestRejected ==
    /\ last.op = "other_command" => (last.code = 400 /\ Untouched)
    /\ (/\ last.op = "manual_block"
        /\ \/ last.expires_at = Unparseable
           \/ last.duration \notin KnownDurations \cup {"none"}) =>
        (last.code = 400 /\ Untouched)

\* Both invocations of a race have made all their calls.
RaceDone == proc # NoProcs /\ proc[1].todo = <<>> /\ proc[2].todo = <<>>

\* The account as the specification sees it: its status, its expiration, its
\* protection and whether its policy holds the deny statement.
AccountOf(db) ==
    [blocked |-> IsBlocked(db.ubs[RaceUser]),
     expires_at |-> db.ubs[RaceUser].blocked_until,
     protected |-> IsProtected(db.ul[RaceUser]),
     deny |-> HasDeny(db.policy[RaceUser].Statement)]

\* The stores after the invocation of trigger a ran alone and then the one
\* of trigger b, from where the race started.
OneAfterTheOther(a, b) ==
    Alone(Alone(proc[3].start, Invocation(a), now), Invocation(b), now)

\* C23: when two invocations for the same account have both ended, the
\* account (status, expiration, protection, deny statement) is what one of the two orders of running them
\* one after the other gives, and the account is BLOCKED exactly when its
\* policy holds the deny statement.
C23_Serialized ==
    RaceDone =>
        /\ AccountOf(Stores) \in {AccountOf(OneAfterTheOther(proc[1].op, proc[2].op)),
                                AccountOf(OneAfterTheOther(proc[2].op, proc[1].op))}
        /\ IsBlocked(ubs[RaceUser]) <=> HasDeny(policy[RaceUser].Statement)

\* The account usage events name carries an automatic block.
AutoBlocked(u) ==
    /\ IsBlocked(ubs[u])
    /\ ubs[u].blocked_reason \in {"Daily limit exceeded", "Monthly limit exceeded"}

\* The last usage event of u found the block expired and made the account
\* ACTIVE (and then, the account being over a limit, may have blocked it anew).
ReversedByUsageEvent(u) ==
    /\ last.op = "usage_event"
    /\ last.user = u
    /\ CountSteps(last.steps, "iam_unblocking") > 0

\* The block in force is one whose expiration the clock has not reached: a
\* usage event whose status read failed has put a newer block over the old.
Superseded(u) == IsBlocked(ubs[u]) /\ ubs[u].blocked_until # NULL /\ now < ubs[u].blocked_until

\* C24: with no administrator's command, an automatically blocked account
\* whose expiration the clock has reached is eventually made ACTIVE again,
\* given that the daily reset keeps being run (or the block is by then a
\* newer one that has its own expiration ahead); and no step makes an
\* automatically blocked account ACTIVE while the clock is before its
\* expiration.
C24_AutoBlockReversed ==
    /\ \A u \in Active :
        (AutoBlocked(u) /\ now >= ubs[u].blocked_until)
            ~> (~IsBlocked(ubs[u]) \/ ReversedByUsageEvent(u) \/ Superseded(u))
    /\ [][\A u \in Active :
            (AutoBlocked(u) /\ (~IsBlocked(ubs'[u]) \/ ReversedByUsageEvent(u)'))
                => now' >= ubs[u].blocked_until]_vars

\* The daily reset has just made ACTIVE an account whose automatic block had
\* expired.
C24_Witness ==
    /\ last.op = "daily_reset"
    /\ \E u \in Active :
        /\ u \in last.sweep.unblocked_users
        /\ IsBlocked(last.sweep.before[u].ubs)
        /\ last.sweep.before[u].ubs.blocked_reason = "Daily limit exceeded"
        /\ last.sweep.before[u].ubs.blocked_until # NULL
        /\ last.at >= last.sweep.before[u].ubs.blocked_until
        /\ ~IsBlocked(ubs[u])

\* The evaluator would block user u at its daily limit.
SubjectToBlocking(u) ==
    limits_decision(ul[u], daily_limit_of(ul[u]), 0).should_block

\* C25: an ACTIVE account with the protection flag does not keep it for
\* ever: given that the daily reset keeps being run, the flag is eventually
\* cleared (or the account blocked); and after every sweep whose queries and
\* flag update went through, the accounts that were ACTIVE and protected are
\* unprotected, still ACTIVE, and blocked again by the evaluator at the limit.
C25_NoProtectionDrift ==
    /\ \A u \in Active :
        (~IsBlocked(ubs[u]) /\ IsProtected(ul[u]))
            ~> (~IsProtected(ul[u]) \/ IsBlocked(ubs[u]))
    /\ [](last.op = "daily_reset" /\ last.sweep.query_ok =>
            \A u \in ActiveProtectedBefore :
                HasStep(last.sweep.steps[u], "limits", TRUE) =>
                    /\ ~IsProtected(ul[u])
                    /\ ~IsBlocked(ubs[u])
                    /\ SubjectToBlocking(u))

\* A sweep that ran after the day of the manual unblock has cleared the flag
\* of an account that was ACTIVE and protected.
C25_Witness ==
    /\ last.op = "daily_reset"
    /\ last.at >= DayLen
    /\ \E u \in ActiveProtectedBefore :
        /\ \E i \in 1..Len(audit) :
              audit[i].user_id = u /\ audit[i].operation_type = "UNBLOCK"
                  /\ audit[i].performed_by \in Administrators
        /\ ~IsProtected(ul[u])
        /\ ~IsBlocked(ubs[u])
        /\ SubjectToBlocking(u)

\* C26: a sweep in which every call went through leaves no ACTIVE account
\* with the deny statement in its policy: the deny an earlier unblock failed
\* to remove is removed by the later run.
C26_StaleDenySwept ==
    (/\ last.op = "daily_reset"
     /\ last.sweep.query_ok
     /\ \A u \in Users : AllStepsOk(last.sweep.steps[u])) =>
        \A u \in Users :
            (ubs[u].exists /\ ~IsBlocked(ubs[u])) => ~HasDeny(policy[u].Statement)

\* C27: the audit rows of one account carry strictly increasing timestamps
\* in the order in which they were written.
C27_AuditTimestampsIncrease ==
    \A i \in 1..Len(audit), j \in 1..Len(audit) :
        (i < j /\ audit[i].user_id = audit[j].user_id) =>
            audit[i].operation_timestamp < audit[j].operation_timestamp

-----------------------------------------------------------------------------
(* Status reporting: the transitions of one account and, between them, the   *)
(* check_status command.                                                     *)

\* lambda_handler on {action: check_status, user_id: u}: check_user_status.
\* last keeps the transition before it and gains the report.
CheckStatus(u) ==
    \E read_fails \in BOOLEAN :
        LET r == check_user_status(Stores, u, read_fails)
        IN  /\ Fails(IF read_fails THEN 1 ELSE 0)
            /\ Store(r.db)
            /\ last' = [last EXCEPT !.report =
                            [statusCode |-> r.statusCode, user_id |-> r.user_id,
                             is_blocked |-> r.is_blocked,
                             block_reason |-> r.block_reason,
                             blocked_since |-> r.blocked_since,
                             expires_at |-> r.expires_at,
                             block_type |-> r.block_type,
                             performed_by |-> r.performed_by,
                             administrative_safe |-> r.administrative_safe,
                             found |-> Snapshot(u)]]
            /\ UNCHANGED <<now, proc>>

NextStatus ==
    \/ Tick
    \/ \E u \in Active : UsageEvent(u)
    \/ \E u \in Active : ManualBlock(u)
    \/ \E u \in Active : ManualUnblock(u)
    \/ \E u \in Active : CheckStatus(u)

SpecStatus == Init /\ [][NextStatus]_vars

-----------------------------------------------------------------------------
(* C28: notification *)

\* The stores as the last action on one account found them.
PreStores ==
    LET u == last.user
        logged == last.op = "usage_event" /\ last.outcome = "logged"
    IN  [ubs |-> [ubs EXCEPT ![u] = last.pre.ubs],
         ul |-> [ul EXCEPT ![u] = last.pre.ul],
         reqs |-> IF logged THEN [reqs EXCEPT ![u][Day(last.at)] = @ - 1] ELSE reqs,
         policy |-> [policy EXCEPT ![u] = last.pre.policy],
         audit |-> SubSeq(audit, 1, last.pre.audit)]

\* The last action run again from what it found, every call succeeding.
WithMailDelivered ==
    CASE last.op = "manual_block" ->
            manual_block_user(PreStores, last.user, last.at, last.by, last.expires_at,
                              NoFaults)
      [] last.op = "manual_unblock" ->
            manual_unblock_user(PreStores, last.user, last.at, last.by, NoFaults)
      [] OTHER ->
            handle_cloudtrail_event(PreStores, last.user, last.at, now,
                                    last.outcome # "skipped_unparsed", NoFaults)

Notifying == last.op \in {"manual_block", "manual_unblock", "usage_event"}

MailFailed(channel) == HasStep(last.steps, channel, FALSE)

\* Every failed call of the email service is followed by an SMTP attempt.
FallbackTried ==
    \A i \in 1..Len(last.steps) :
        last.steps[i] = Step("email_service", FALSE)
            => i < Len(last.steps) /\ last.steps[i + 1].step = "smtp"

\* The message SMTP carries says what the email service was asked to say.
SameContent ==
    /\ last.op = "manual_block"
        => enhanced_blocking_mails(last.by, last.at).fallback
               = enhanced_blocking_mails(last.by, last.at).primary
    /\ last.op = "manual_unblock"
        => enhanced_unblocking_mails(last.by).fallback
               = enhanced_unblocking_mails(last.by).primary

\* With no other call failing, the answer and the account's rows are those of
\* the run in which the notification went out.
MailNeutral ==
    LET r == WithMailDelivered
        u == last.user
    IN  /\ r.ok = last.ok
        /\ r.db.ubs[u] = ubs[u]
        /\ r.db.ul[u] = ul[u]
        /\ r.db.policy[u] = policy[u]

C28_FallbackTried == Notifying => FallbackTried

C28_MailNeutral == (Notifying /\ last.clean) => MailNeutral

C28_BothChannelsFailed ==
    /\ last.op \in {"manual_block", "manual_unblock"}
    /\ last.clean /\ MailFailed("email_service") /\ MailFailed("smtp")
    /\ last.code = 200

\* C28: when the email service answers non-success or raises, SMTP is tried
\* with the same logical content; and on every block and unblock path,
\* whatever the two channels do, the result returned and the account's status
\* row, policy document and protection flag are those of the run in which the
\* notification succeeds.
C28_NotificationBestEffort ==
    Notifying =>
        /\ FallbackTried
        /\ MailFailed("email_service") => SameContent
        /\ last.clean => MailNeutral

-----------------------------------------------------------------------------
(* C29: status reporting *)

\* The last command was a status check that answered 200.
Reported == last.report.statusCode = 200

\* The instants 00:00:00 of the days of the model.
Midnights == {d * DayLen : d \in 0..(MaxDay + 2)}

\* C29: check_status reports is_blocked exactly when the status row is
\* blocked; block type AUTO by 'system' when the account is blocked and
\* blocked_until is a local midnight, Manual for any other or no
\* blocked_until, None with no performer when the account is not blocked or
\* has no status row; and it changes no state.
C29_StatusReporting ==
    LET rep == last.report
        row == ubs[rep.user_id]
    IN  /\ rep # NoReport => Snapshot(rep.user_id) = rep.found
        /\ Reported =>
            /\ rep.is_blocked <=> IsBlocked(row)
            /\ (IsBlocked(row) /\ row.blocked_until \in Midnights)
                    => rep.block_type = "AUTO" /\ rep.performed_by = "system"
            /\ (IsBlocked(row) /\ row.blocked_until \notin Midnights)
                    => rep.block_type = "Manual"
            /\ ~IsBlocked(row) => rep.block_type = "None" /\ rep.performed_by = ""

\* A blocked account whose block ends at midnight was reported on.
C29_Witness ==
    /\ Reported /\ last.report.is_blocked
    /\ last.report.block_type = "AUTO"
    /\ last.report.expires_at \in Midnights

C29_ManualTimed ==
    Reported /\ last.report.block_type = "Manual" /\ last.report.expires_at # NULL

C29_ManualIndefinite ==
    Reported /\ last.report.block_type = "Manual" /\ last.report.expires_at = NULL

C29_UnblockedRow ==
    Reported /\ last.report.block_type = "None" /\ last.report.found.ubs.exists

C29_NoRow ==
    Reported /\ last.report.block_type = "None" /\ ~last.report.found.ubs.exists

-----------------------------------------------------------------------------
(* C30: the reported block type and the real trigger *)

\* The report is about the block the transition before it wrote.
ReportedOnLastBlock ==
    /\ Reported /\ last.report.is_blocked
    /\ last.user = last.report.user_id
    /\ HasStep(last.steps, "status", TRUE)
    /\ \/ last.op = "manual_block"
       \/ last.op = "usage_event" /\ last.outcome = "blocked"

C30_TypeMatchesTrigger ==
    ReportedOnLastBlock
        => (last.report.block_type = "AUTO" <=> last.op = "usage_event")

C30_PerformerMatchesTrigger ==
    ReportedOnLastBlock
        => last.report.performed_by
               = (IF last.op = "usage_event" THEN "system" ELSE last.by)

\* C30: for a blocked account, whatever blocks came before, check_status
\* reports block type AUTO if and only if the current block was applied by
\* the automatic transition, and reports as performed_by the identity that
\* performed it.
C30_ReportMatchesTrigger == C30_TypeMatchesTrigger /\ C30_PerformerMatchesTrigger

\* An automatic block is reported as AUTO by 'system'.
C30_AutoReported ==
    ReportedOnLastBlock /\ last.op = "usage_event"
        => last.report.block_type = "AUTO" /\ last.report.performed_by = "system"

\* A manual block with a custom expiration at midnight, reported as automatic.
C30_CustomMidnightAsAuto ==
    /\ ReportedOnLastBlock /\ last.op = "manual_block"
    /\ last.expires_at = CustomExpiry(DayLen) /\ now > 0
    /\ last.report.block_type = "AUTO" /\ last.report.performed_by = "system"

-----------------------------------------------------------------------------
(* C31: missing configuration *)

Evaluated == last.op = "check_user_limits_with_protection"

\* C31: for an account with no limits row the evaluator decides as for the
\* row (350, 5000, 'N'): it blocks with the daily reason at 350 requests
\* today, with the monthly reason at 5000 requests this month, and otherwise
\* does not block.
C31_MissingLimitsDefaults ==
    (Evaluated /\ ~ul[last.user].exists) =>
        LET today == reqs[last.user][Day(now)]
            month == monthly_requests_used(Stores, last.user, now)
        IN  /\ last.decision = limits_decision(default_limits("N"), today, month)
            /\ last.decision.should_block <=> (today >= 350 \/ month >= 5000)
            /\ (today < 350 /\ month < 5000) => last.decision = NoDecision

\* An account without limits row, with requests logged but fewer than 350
\* today and fewer than 5000 this month, was evaluated and not blocked.
C31_Witness ==
    /\ Evaluated /\ ~ul[last.user].exists
    /\ reqs[last.user][Day(now)] = 349
    /\ monthly_requests_used(Stores, last.user, now) = 351 + 349
    /\ last.decision = NoDecision

\* An account without limits row at 350 requests today is blocked.
C31_BlockedAtDefault ==
    /\ Evaluated /\ ~ul[last.user].exists
    /\ reqs[last.user][Day(now)] = 350
    /\ last.decision = [should_block |-> TRUE, block_reason |-> "Daily limit exceeded"]

-----------------------------------------------------------------------------
(* C32: step order inside one transition *)

\* Every step named in A comes before every step named in B.
AllBefore(steps, A, B) ==
    \A i, j \in 1..Len(steps) :
        (steps[i].step \in A /\ steps[j].step \in B) => i < j

SyncSteps == {"iam_blocking", "iam_unblocking"}

MailSteps == {"email_service", "smtp"}

\* The last handler ran one block or unblock transition.
OneTransition ==
    /\ last.op \in {"usage_event", "manual_block", "manual_unblock"}
    /\ CountSteps(last.steps, "status") = 1

C32_SyncBeforeAudit == OneTransition => AllBefore(last.steps, SyncSteps, {"audit"})

C32_AuditBeforeMail == OneTransition => AllBefore(last.steps, {"audit"}, MailSteps)

\* C32: in every block and unblock path the steps come in the order status
\* write, policy synchronization, audit write, and the notification is sent
\* only after the audit row has been written.
C32_StepOrder ==
    OneTransition =>
        /\ AllBefore(last.steps, {"status"}, SyncSteps \cup {"audit"} \cup MailSteps)
        /\ AllBefore(last.steps, SyncSteps, {"audit"})
        /\ AllBefore(last.steps, {"audit"}, MailSteps)

\* The status write is the first step of every path.
C32_StatusFirst ==
    OneTransition
        => AllBefore(last.steps, {"status"}, SyncSteps \cup {"audit", "limits"} \cup MailSteps)

-----------------------------------------------------------------------------
(* C33: audit completeness and accuracy *)

\* The last handler ran one transition of last.user and wrote its status row.
PastStatusWrite == OneTransition /\ HasStep(last.steps, "status", TRUE)

AuditFailed(steps) == HasStep(steps, "audit", FALSE)

\* What the transition was and who performed it.
TransitionType ==
    IF last.op = "manual_block" \/ (last.op = "usage_event" /\ last.outcome = "blocked")
    THEN "BLOCK" ELSE "UNBLOCK"

TransitionPerformer == IF last.op = "usage_event" THEN "system" ELSE last.by

SyncSucceeded(steps) == \E i \in 1..Len(steps) : steps[i].step \in SyncSteps /\ steps[i].ok

MailSent(steps) == \E i \in 1..Len(steps) : steps[i].step \in MailSteps /\ steps[i].ok

\* The audit rows the last handler appended for user u.
AppendedRows(u) == SelectSeq(Appended, LAMBDA row : row.user_id = u)

\* One row, of the transition's type and performer, unless the audit insert
\* itself raised.
C33_UserEntry ==
    (PastStatusWrite /\ ~AuditFailed(last.steps)) =>
        /\ Len(AppendedRows(last.user)) = 1
        /\ AppendedRows(last.user)[1].operation_type = TransitionType
        /\ AppendedRows(last.user)[1].performed_by = TransitionPerformer

\* The row's two flags tell what the policy synchronization and the
\* notification of the transition did.
C33_UserFlags ==
    (PastStatusWrite /\ Len(AppendedRows(last.user)) = 1) =>
        /\ AppendedRows(last.user)[1].iam_policy_updated = YN(SyncSucceeded(last.steps))
        /\ AppendedRows(last.user)[1].email_sent = YN(MailSent(last.steps))

\* The flags of the row of an automatic block.
C33_AutoBlockFlags ==
    (PastStatusWrite /\ last.op = "usage_event" /\ last.outcome = "blocked"
        /\ Len(AppendedRows(last.user)) = 1) =>
        /\ AppendedRows(last.user)[1].iam_policy_updated = YN(SyncSucceeded(last.steps))
        /\ AppendedRows(last.user)[1].email_sent = YN(MailSent(last.steps))

\* Every account the daily reset unblocked has one UNBLOCK row by 'system'.
C33_SweepEntry ==
    last.op = "daily_reset" =>
        \A u \in Users :
            (HasStep(last.sweep.steps[u], "status", TRUE)
                /\ ~AuditFailed(last.sweep.steps[u])) =>
                /\ Len(AppendedRows(u)) = 1
                /\ AppendedRows(u)[1].operation_type = "UNBLOCK"
                /\ AppendedRows(u)[1].performed_by = "system"

\* The same with the performer the daily reset writes.
C33_SweepEntryDailyReset ==
    last.op = "daily_reset" =>
        \A u \in Users :
            (HasStep(last.sweep.steps[u], "status", TRUE)
                /\ HasStep(last.sweep.steps[u], "audit", TRUE)) =>
                /\ Len(AppendedRows(u)) = 1
                /\ AppendedRows(u)[1].operation_type = "UNBLOCK"
                /\ AppendedRows(u)[1].performed_by = "daily_reset"

\* Audit rows are only ever appended.
C33_AppendOnly ==
    [][Len(audit') >= Len(audit) /\ SubSeq(audit', 1, Len(audit)) = audit]_vars

\* C33: every transition attempt that got past the status write appends
\* exactly one audit row for the account, with the operation of the
\* transition and its performer ('system' for automatic and expiration
\* transitions, the administrator otherwise), whose iam_policy_updated and
\* email_sent flags tell what the policy synchronization and the notification
\* of that attempt did.
C33_AuditComplete == C33_UserEntry /\ C33_UserFlags /\ C33_SweepEntry

\* The daily reset wrote an account's status row, failed on its limits row and
\* left no audit row of the attempt.
C33_SweepNoEntry ==
    /\ last.op = "daily_reset"
    /\ \E u \in Users :
        /\ HasStep(last.sweep.steps[u], "status", TRUE)
        /\ HasStep(last.sweep.steps[u], "limits", FALSE)
        /\ Len(AppendedRows(u)) = 0

-----------------------------------------------------------------------------
(* C34: the two passes of the sweep *)

\* The accounts whose block had expired when the sweep began.
ExpiredBefore ==
    {u \in Users : /\ IsBlocked(last.sweep.before[u].ubs)
                   /\ last.sweep.before[u].ul.exists
                   /\ \/ last.sweep.before[u].ubs.blocked_until = NULL
                      \/ last.sweep.before[u].ubs.blocked_until <= last.at}

NoFailedStep(steps) == \A i \in 1..Len(steps) : steps[i].ok

\* Nothing of the first pass failed: not its query, not a write of an unblock.
Pass1Clean ==
    /\ last.sweep.failed_query # "expired"
    /\ \A u \in ExpiredBefore : NoFailedStep(last.sweep.steps[u])

\* Nothing of the second pass failed: not its query, not a clear.
Pass2Clean ==
    /\ last.sweep.failed_query # "admin_safe"
    /\ \A u \in ActiveProtectedBefore : NoFailedStep(last.sweep.steps[u])

C34_Pass1Done == \A u \in ExpiredBefore : ~IsBlocked(ubs[u])

C34_Pass2Done == \A u \in ActiveProtectedBefore : ~IsProtected(ul[u])

\* With both queries answered, a failing clear does not touch the unblocks
\* and a failing unblock does not touch the clears.
C34_AccountsIndependent ==
    (last.op = "daily_reset" /\ last.sweep.query_ok) =>
        /\ \A u \in ExpiredBefore :
              NoFailedStep(last.sweep.steps[u]) => ~IsBlocked(ubs[u])
        /\ \A u \in ActiveProtectedBefore :
              NoFailedStep(last.sweep.steps[u]) => ~IsProtected(ul[u])

\* C34: a failure of the second pass (its query or a clear) does not prevent
\* the unblocks of the first pass, and a failure of the first pass does not
\* prevent the second pass from clearing the protection of active accounts.
C34_PassesIndependent ==
    last.op = "daily_reset" =>
        /\ Pass1Clean => C34_Pass1Done
        /\ Pass2Clean => C34_Pass2Done

\* The query of the second pass raised and an expired block stayed.
C34_Pass2QueryStopsPass1 ==
    /\ last.op = "daily_reset" /\ last.sweep.failed_query = "admin_safe"
    /\ \E u \in ExpiredBefore : IsBlocked(ubs[u])

\* The query of the first pass raised and a protection flag stayed.
C34_Pass1QueryStopsPass2 ==
    /\ last.op = "daily_reset" /\ last.sweep.failed_query = "expired"
    /\ \E u \in ActiveProtectedBefore : IsProtected(ul[u])

-----------------------------------------------------------------------------
(* C35: atomicity of one account's transition *)

\* The invocation is over, completed or cut short.
Ended == proc[1].todo = <<>>

\* The stores had the invocation run to its end.
Completed == Alone(proc[3].start, Invocation(proc[1].op), now)

\* C35: when an invocation has ended, by completing or by being cut short
\* between two calls, the account is entirely as before the transition or
\* entirely as after it.
C35_Atomic ==
    Ended => (Stores = proc[3].start \/ Stores = Completed)

\* An invocation that completes leaves the stores of the whole transition.
C35_CompletedRuns ==
    (Ended /\ last.op # "crash") => Stores = Completed

\* The daily reset was cut short after its status write: the account is
\* ACTIVE, still protected, with the deny statement in place and no audit row
\* of the unblock.
C35_HalfUnblocked ==
    /\ Ended /\ last.op = "crash" /\ proc[1].op = "daily_reset"
    /\ IsBlocked(proc[3].start.ubs[RaceUser]) /\ ~IsBlocked(ubs[RaceUser])
    /\ IsProtected(ul[RaceUser])
    /\ HasDeny(policy[RaceUser].Statement)
    /\ Len(audit) = Len(proc[3].start.audit)

-----------------------------------------------------------------------------
(* C36: usage events of a blocked account *)

UsageEventOnBlocked == last.op = "usage_event" /\ IsBlocked(last.pre.ubs)

\* The block the event found had an expiration the clock had reached.
FoundExpired ==
    last.pre.ubs.blocked_until # NULL /\ last.at >= last.pre.ubs.blocked_until

\* The event was skipped: nothing logged, nothing evaluated, no row changed.
Skipped ==
    /\ last.outcome \in {"skipped_blocked", "skipped_unparsed"}
    /\ last.steps = <<>>
    /\ last.decision = NoDecision
    /\ ubs[last.user] = last.pre.ubs
    /\ policy[last.user] = last.pre.policy
    /\ Len(audit) = last.pre.audit

\* (a) a usage event of a blocked account whose block has not expired is
\* skipped.
C36_BlockedSkipped == (UsageEventOnBlocked /\ ~FoundExpired) => Skipped

\* (b) a usage event never unblocks a block without expiration.
C36_IndefiniteKept ==
    (UsageEventOnBlocked /\ last.pre.ubs.blocked_until = NULL) =>
        /\ IsBlocked(ubs[last.user])
        /\ AppendedFor(last.user, "UNBLOCK") = 0
        /\ CountSteps(last.steps, "iam_unblocking") = 0

\* (c) an expired block is lifted first (when its status write goes through)
\* and the same event is then evaluated; when it blocks again, a BLOCK row
\* follows the UNBLOCK row.
C36_ExpiredThenEvaluated ==
    (UsageEventOnBlocked /\ FoundExpired /\ last.steps # <<Step("status", FALSE)>>) =>
        /\ Len(last.steps) >= 4
        /\ last.steps[1] = Step("status", TRUE) /\ last.steps[2].step = "limits"
        /\ CountSteps(last.steps, "iam_unblocking") = 1
        /\ last.outcome \in {"blocked", "logged", "skipped_unparsed"}
        /\ last.outcome = "blocked" =>
            /\ last.decision.should_block
            /\ (CountSteps(last.steps, "status") = 2
                    /\ last.steps[Len(last.steps)] = Step("audit", TRUE))
                => /\ IsBlocked(ubs[last.user])
                   /\ AppendedFor(last.user, "BLOCK") = 1
                   /\ audit[Len(audit)].operation_type = "BLOCK"
        /\ last.outcome # "blocked" => ~IsBlocked(ubs[last.user])

\* C36: while an account is blocked and its block has not expired, every
\* usage event of it is skipped (not logged, not evaluated, no transition); a
\* block without expiration is never lifted by a usage event; an expired block
\* is lifted first and the same event is then evaluated and may block the
\* account again at once, appending a new BLOCK row.
C36_BlockedAccountEvents ==
    C36_BlockedSkipped /\ C36_IndefiniteKept /\ C36_ExpiredThenEvaluated

\* The same when the reads and writes of the event all went through.
C36_WhenCallsSucceed == last.clean => C36_BlockedAccountEvents

\* An event found the block expired, lifted it and blocked the account anew.
C36_Reblocked ==
    /\ UsageEventOnBlocked /\ FoundExpired /\ last.clean
    /\ last.outcome = "blocked"
    /\ AppendedFor(last.user, "UNBLOCK") = 1 /\ AppendedFor(last.user, "BLOCK") = 1

\* The status read of an event failed and the event of a blocked account was
\* logged.
C36_LoggedWhileBlocked ==
    /\ UsageEventOnBlocked /\ ~FoundExpired
    /\ last.outcome = "logged" /\ IsBlocked(ubs[last.user])

-----------------------------------------------------------------------------
(* C37: what is recorded stays within the daily limit                        *)

\* No account is protected: under SpecAuto no administrator's command runs,
\* and nothing else sets administrative_safe.
C37_NeverProtected == \A u \in Users : administrative_safe_of(ul[u]) = "N"

RecordedWithinLimit(u) ==
    \A d \in 0..MaxDay : reqs[u][d] <= daily_limit_of(ul[u])

\* C37: with usage events handled one at a time and the account never
\* protected, the number of requests recorded for an account on a day is at
\* most its daily limit.
C37_RecordedWithinLimit == \A u \in Active : RecordedWithinLimit(u)

\* The same as long as no call of any invocation has failed.
C37_WhenCallsSucceed == faulted = 0 => C37_RecordedWithinLimit

\* The event that finds the day's count at the limit blocks the account and
\* is not recorded.
C37_AtLimitNotRecorded ==
    /\ last.op = "usage_event" /\ last.outcome = "blocked" /\ last.clean
    /\ last.decision.block_reason = "Daily limit exceeded"
    /\ reqs[last.user][Day(last.at)] = daily_limit_of(ul[last.user])
    /\ IsBlocked(ubs[last.user])

\* The reads of the limits check failed and the event was recorded on top of
\* a day's count already at the limit.
C37_RecordedOverLimit ==
    /\ last.op = "usage_event" /\ last.outcome = "logged" /\ ~last.clean
    /\ reqs[last.user][Day(last.at)] > daily_limit_of(ul[last.user])
    /\ administrative_safe_of(ul[last.user]) = "N"

-----------------------------------------------------------------------------
(* C38: block record and policy agree when nothing fails                     *)

\* The block record says blocked exactly when the policy document carries
\* the deny statement, and an active record has no expiry.
Consistent(u) ==
    /\ IsBlocked(ubs[u]) <=> (policy[u].exists /\ HasDeny(policy[u].Statement))
    /\ ~IsBlocked(ubs[u]) => ubs[u].blocked_until = NULL

\* The calls of the last handler all went through, the notification aside.
NothingFailed ==
    IF last.op = "daily_reset"
    THEN last.sweep.failed_query = "none"
         /\ \A u \in Users : NoFailedStep(last.sweep.steps[u])
    ELSE last.clean

\* C38: when no store, policy or audit operation has failed and the
\* transitions of an account follow one another, every account's block record
\* and policy agree after each transition.
C38_RecordPolicyConsistent == faulted = 0 => \A u \in Users : Consistent(u)

\* A handler none of whose calls fails, the notification aside, takes
\* agreeing stores to agreeing stores.
C38_ConsistencyKept ==
    [][((\A u \in Users : Consistent(u)) /\ NothingFailed')
            => (\A u \in Users : Consistent(u))']_vars

\* A block and the unblock after it, nothing having failed.
C38_BlockedThenUnblocked ==
    /\ faulted = 0 /\ last.op \in {"manual_unblock", "usage_event", "daily_reset"}
    /\ \E u \in Active :
        /\ IsBlocked(last.pre.ubs) \/ IsBlocked(last.sweep.before[u].ubs)
        /\ ~IsBlocked(ubs[u]) /\ policy[u].exists /\ ~HasDeny(policy[u].Statement)

\* A blocked account with the deny statement in its policy, nothing having
\* failed.
C38_BlockedWithDeny ==
    /\ faulted = 0 /\ last.op \in {"manual_block", "usage_event"}
    /\ IsBlocked(ubs[last.user]) /\ HasDeny(policy[last.user].Statement)

====
